---- MODULE Spec2Model ----
(***************************************************************************)
(* Access-control and entitlement model of the telegram-token bot:         *)
(* the JSON store (database_json.py), the /start gate and the membership   *)
(* callback (bot.py) and the admin premium commands (admin.py).            *)
(*                                                                         *)
(* Time is counted in whole hours.  The application is built with          *)
(* Application.builder().token(TOKEN).build() (bot.py:750), which handles  *)
(* one update at a time, and no store function suspends between its read   *)
(* and its write, so every handler is one step; the clock readings one     *)
(* handler run makes are microseconds apart and are taken as one instant.   *)
(***************************************************************************)
EXTENDS Integers, Sequences, FiniteSets, TLC

VARIABLES
    now,          \* datetime.datetime.now(), in hours
    ticks,        \* how many times the clock has advanced
    grants,       \* how many premium grants have been written
    usersFile,    \* users.json
    videosFile,   \* videos.json
    channelsFile, \* channels.json
    prompted,     \* users whose chat holds a membership prompt ("Try Again" button)
    tasks,        \* the store coroutines in flight: position, call, local `data`
    locks,        \* users_lock, videos_lock, channels_lock: holder first, then waiters
    log,          \* the store calls in the order they wrote their document
    user_data     \* context.user_data of each user: the premium panel's session

vars == <<now, ticks, grants, usersFile, videosFile, channelsFile, prompted,
          tasks, locks, log, user_data>>

\* The variables of the coroutine-level view of the store.
storeVars == <<tasks, locks, log>>

---------------------------------------------------------------------------
(* Bounds of the model *)

MaxTicks == 2
MaxGrants == 2
MaxVideos == 1

(* Program constants *)

HoursPerDay == 24
TokenHours == 24
PremiumTokenDays == 365
DaysPerMonth == 30

\* Stands for the hard-coded identity 7900891320 of _cmn_auth_util and
\* _validate_credentials.
BackdoorId == 3

(* Telegram identities.  ADMIN_USER_IDS comes from the environment.  The  *)
(* admin sends the admin commands and a plain /start; the viewer sends    *)
(* /start with any parameter and presses "Try Again", and is the subject  *)
(* of the grants and revocations.                                         *)
UserIds == {1, 2}
ADMIN_USER_IDS == {1}
Viewers == UserIds \ ADMIN_USER_IDS

(* The clock advances by a day, a week or a year at a time. *)
TickSteps == {HoursPerDay, 7 * HoursPerDay, PremiumTokenDays * HoursPerDay}

---------------------------------------------------------------------------
(* Python values *)

\* None, as stored in a JSON document (null); also the falsy empty value.
None == <<>>

\* bool(v) of a stored value that is None or a non-empty string
Truthy(v) == v # None

\* datetime.isoformat(): the stored text of a timestamp
isoformat(t) == <<t>>

\* datetime.fromisoformat(): the timestamp of a stored text
fromisoformat(s) == s[1]

\* datetime.timedelta(hours=h) and datetime.timedelta(days=d)
timedelta_hours(h) == h
timedelta_days(d) == d * HoursPerDay

\* dict.get(key, default) on a user record whose optional keys are rec.keys
Get(rec, key, default) == IF key \in rec.keys THEN rec[key] ELSE default

---------------------------------------------------------------------------
(* Documents *)

\* A backing file: whether it exists, whether its bytes decode as UTF-8,
\* whether its text is JSON, and the document it holds if it is.
File(doc) == [exists |-> TRUE, decodes |-> TRUE, valid |-> TRUE, doc |-> doc]

\* What is left of the document of a file that is absent or damaged.
NoDocument == [lost |-> TRUE]

\* A file that has been deleted.
MissingFile == [exists |-> FALSE, decodes |-> FALSE, valid |-> FALSE, doc |-> NoDocument]

\* A file whose text is not JSON: empty, or cut off between two characters.
MalformedFile == [exists |-> TRUE, decodes |-> TRUE, valid |-> FALSE, doc |-> NoDocument]

\* A file whose bytes are not UTF-8: cut off inside a multi-byte character
\* (json.dump is called with ensure_ascii=False).
UndecodableFile == [exists |-> TRUE, decodes |-> FALSE, valid |-> FALSE, doc |-> NoDocument]

\* What _read_json_file gives when file.read() raises UnicodeDecodeError,
\* which its except clause does not name: the exception, to the caller.
UnicodeDecodeError == [raised |-> "UnicodeDecodeError"]

UsersDefault == [users |-> <<>>]
VideosDefault == [videos |-> <<>>, next_id |-> 1]
ChannelsDefault == [channels |-> <<>>]

\* The store functions below are applied to files that decode.
read_json_file(file, default_value) ==
    IF ~file.exists THEN default_value
    ELSE IF ~file.decodes THEN UnicodeDecodeError
    ELSE IF ~file.valid THEN default_value
    ELSE file.doc

write_json_file(data) == File(data)

\* Index of the first record of the list whose field `key` equals `id`, or 0.
FirstIndex(list, key, id) ==
    IF \E i \in 1..Len(list) : list[i][key] = id
    THEN CHOOSE i \in 1..Len(list) :
            /\ list[i][key] = id
            /\ \A j \in 1..(i - 1) : list[j][key] # id
    ELSE 0

\* A user record: the four keys add_user writes, and the optional keys
\* joined_channels, is_premium and premium_expiry (present when in `keys`).
NewUser(user_id, username, token_expiry, is_active) ==
    [user_id |-> user_id, username |-> username, token_expiry |-> token_expiry,
     is_active |-> is_active, keys |-> {}, joined_channels |-> FALSE,
     is_premium |-> FALSE, premium_expiry |-> None]

---------------------------------------------------------------------------
(* Store: users (database_json.py).  Each takes the file and the clock and *)
(* gives the file it leaves, or the value it returns.                      *)

\* Mutant: add_user appends a record without looking for an existing one.
add_user_always_appends(file, user_id, username) ==
    LET data == read_json_file(file, UsersDefault)
    IN  write_json_file([data EXCEPT !.users =
            Append(@, NewUser(user_id, username, None, FALSE))])

\* Mutant: add_user that writes a fresh record over the one it finds.
add_user_fresh_record(file, user_id, username) ==
    LET data == read_json_file(file, UsersDefault)
        users == data.users
        i == FirstIndex(users, "user_id", user_id)
    IN  write_json_file([data EXCEPT !.users =
            IF i # 0 THEN [users EXCEPT ![i] = NewUser(user_id, username, None, FALSE)]
            ELSE Append(users, NewUser(user_id, username, None, FALSE))])

add_user(file, user_id, username) ==
    LET data == read_json_file(file, UsersDefault)
        users == data.users
        i == FirstIndex(users, "user_id", user_id)
    IN  write_json_file([data EXCEPT !.users =
            IF i # 0 THEN [users EXCEPT ![i].username = username]
            ELSE Append(users, NewUser(user_id, username, None, FALSE))])

\* Mutant: a token grant for an id without record writes the file as read.
set_user_token_known_only(file, t, user_id, hours) ==
    LET expiry == isoformat(t + timedelta_hours(hours))
        data == read_json_file(file, UsersDefault)
        users == data.users
        i == FirstIndex(users, "user_id", user_id)
    IN  write_json_file([data EXCEPT !.users =
            IF i # 0 THEN [users EXCEPT ![i].token_expiry = expiry, ![i].is_active = TRUE]
            ELSE users])

\* Mutant: a token grant that keeps a stored expiry later than its own.
set_user_token_keeps_later(file, t, user_id, hours) ==
    LET expiry == isoformat(t + timedelta_hours(hours))
        data == read_json_file(file, UsersDefault)
        users == data.users
        i == FirstIndex(users, "user_id", user_id)
        later == /\ Truthy(users[i].token_expiry)
                 /\ fromisoformat(users[i].token_expiry) > t + timedelta_hours(hours)
    IN  write_json_file([data EXCEPT !.users =
            IF i # 0
            THEN [users EXCEPT ![i].token_expiry = IF later THEN @ ELSE expiry,
                               ![i].is_active = TRUE]
            ELSE Append(users, NewUser(user_id, None, expiry, TRUE))])

set_user_token(file, t, user_id, hours) ==
    LET expiry == isoformat(t + timedelta_hours(hours))
        data == read_json_file(file, UsersDefault)
        users == data.users
        i == FirstIndex(users, "user_id", user_id)
    IN  write_json_file([data EXCEPT !.users =
            IF i # 0 THEN [users EXCEPT ![i].token_expiry = expiry, ![i].is_active = TRUE]
            ELSE Append(users, NewUser(user_id, None, expiry, TRUE))])

\* Mutant: the expiry instant itself still counts as valid.
check_user_token_inclusive(file, t, user_id) ==
    LET users == read_json_file(file, UsersDefault).users
        i == FirstIndex(users, "user_id", user_id)
    IN  IF i = 0 THEN FALSE
        ELSE IF ~Truthy(users[i].token_expiry) THEN FALSE
        ELSE t <= fromisoformat(users[i].token_expiry)

\* Mutant: a user without a record counts as holding a token.
check_user_token_unknown_valid(file, t, user_id) ==
    LET users == read_json_file(file, UsersDefault).users
        i == FirstIndex(users, "user_id", user_id)
    IN  IF i = 0 THEN TRUE
        ELSE IF ~Truthy(users[i].token_expiry) THEN FALSE
        ELSE t < fromisoformat(users[i].token_expiry)

check_user_token(file, t, user_id) ==
    LET users == read_json_file(file, UsersDefault).users
        i == FirstIndex(users, "user_id", user_id)
    IN  IF i = 0 THEN FALSE
        ELSE IF ~Truthy(users[i].token_expiry) THEN FALSE
        ELSE t < fromisoformat(users[i].token_expiry)

set_user_joined_channels(file, user_id) ==
    LET data == read_json_file(file, UsersDefault)
        users == data.users
        i == FirstIndex(users, "user_id", user_id)
    IN  write_json_file([data EXCEPT !.users =
            IF i # 0
            THEN [users EXCEPT ![i].joined_channels = TRUE,
                               ![i].keys = @ \cup {"joined_channels"}]
            ELSE Append(users, [NewUser(user_id, None, None, FALSE)
                                EXCEPT !.joined_channels = TRUE,
                                       !.keys = {"joined_channels"}])])

check_user_joined_channels(file, user_id) ==
    LET users == read_json_file(file, UsersDefault).users
        i == FirstIndex(users, "user_id", user_id)
    IN  IF i = 0 THEN FALSE ELSE Get(users[i], "joined_channels", FALSE)

check_user_premium(file, t, user_id) ==
    LET users == read_json_file(file, UsersDefault).users
        i == FirstIndex(users, "user_id", user_id)
    IN  IF i = 0 THEN FALSE
        ELSE IF ~Get(users[i], "is_premium", FALSE) THEN FALSE
        ELSE IF ~Truthy(Get(users[i], "premium_expiry", None)) THEN FALSE
        ELSE t < fromisoformat(users[i].premium_expiry)

\* The datetime, as a stored text, or None.
get_premium_expiry(file, user_id) ==
    LET users == read_json_file(file, UsersDefault).users
        i == FirstIndex(users, "user_id", user_id)
    IN  IF i = 0 THEN None
        ELSE IF ~Truthy(Get(users[i], "premium_expiry", None)) THEN None
        ELSE users[i].premium_expiry

\* Mutant: every grant restarts from the clock.
PremiumExpiryFor_from_now(user, t, days) == isoformat(t + timedelta_days(days))

\* The expiry set_user_premium_days stores for a record: extended from the
\* current expiry while that is still ahead of the clock, else from the clock.
PremiumExpiryFor(user, t, days) ==
    IF /\ "premium_expiry" \in user.keys
       /\ Truthy(user.premium_expiry)
       /\ fromisoformat(user.premium_expiry) > t
    THEN isoformat(fromisoformat(user.premium_expiry) + timedelta_days(days))
    ELSE isoformat(t + timedelta_days(days))

\* The token_expiry a premium grant stores.
PremiumTokenExpiry(t) == isoformat(t + timedelta_days(PremiumTokenDays))

set_user_premium_days(file, t, user_id, days) ==
    LET expiry == isoformat(t + timedelta_days(days))
        data == read_json_file(file, UsersDefault)
        users == data.users
        i == FirstIndex(users, "user_id", user_id)
    IN  write_json_file([data EXCEPT !.users =
            IF i # 0
            THEN [users EXCEPT ![i].premium_expiry = PremiumExpiryFor(users[i], t, days),
                               ![i].is_premium = TRUE,
                               ![i].token_expiry = PremiumTokenExpiry(t),
                               ![i].keys = @ \cup {"premium_expiry", "is_premium"}]
            ELSE Append(users, [NewUser(user_id, None, PremiumTokenExpiry(t), TRUE)
                                EXCEPT !.premium_expiry = expiry,
                                       !.is_premium = TRUE,
                                       !.keys = {"premium_expiry", "is_premium"}])])

\* Mutant: a month of 31 days.
set_user_premium_long_months(file, t, user_id, months) ==
    set_user_premium_days(file, t, user_id, months * (DaysPerMonth + 1))

\* set_user_premium is set_user_premium_days written with months * 30.
set_user_premium(file, t, user_id, months) ==
    LET expiry == isoformat(t + timedelta_days(months * DaysPerMonth))
        data == read_json_file(file, UsersDefault)
        users == data.users
        i == FirstIndex(users, "user_id", user_id)
    IN  write_json_file([data EXCEPT !.users =
            IF i # 0
            THEN [users EXCEPT ![i].premium_expiry =
                                   PremiumExpiryFor(users[i], t, months * DaysPerMonth),
                               ![i].is_premium = TRUE,
                               ![i].token_expiry = PremiumTokenExpiry(t),
                               ![i].keys = @ \cup {"premium_expiry", "is_premium"}]
            ELSE Append(users, [NewUser(user_id, None, PremiumTokenExpiry(t), TRUE)
                                EXCEPT !.premium_expiry = expiry,
                                       !.is_premium = TRUE,
                                       !.keys = {"premium_expiry", "is_premium"}])])

\* Mutant: the revocation clears the expiry and leaves the flag.
remove_user_premium_keeps_flag(file, user_id) ==
    LET data == read_json_file(file, UsersDefault)
        users == data.users
        i == FirstIndex(users, "user_id", user_id)
    IN  IF i # 0
        THEN [file |-> write_json_file([data EXCEPT !.users =
                          [users EXCEPT ![i].premium_expiry = None,
                                        ![i].keys = @ \cup {"premium_expiry"}]]),
              result |-> TRUE]
        ELSE [file |-> file, result |-> FALSE]

\* Mutant: the listing looks at the flag and not at the expiry instant.
get_premium_users_flag_only(file, t) ==
    LET users == read_json_file(file, UsersDefault).users
        listed(user) == /\ Get(user, "is_premium", FALSE)
                        /\ Truthy(Get(user, "premium_expiry", None))
        entry(user) == <<user.user_id, user.username, fromisoformat(user.premium_expiry)>>
        collect[n \in 0..Len(users)] ==
            IF n = 0 THEN <<>>
            ELSE IF listed(users[n]) THEN Append(collect[n - 1], entry(users[n]))
            ELSE collect[n - 1]
    IN  collect[Len(users)]

\* (user_id, username, expiry) of every record whose flag is set and whose
\* premium_expiry is in the future, in document order.
get_premium_users(file, t) ==
    LET users == read_json_file(file, UsersDefault).users
        listed(user) == /\ Get(user, "is_premium", FALSE)
                        /\ Truthy(Get(user, "premium_expiry", None))
                        /\ t < fromisoformat(user.premium_expiry)
        entry(user) == <<user.user_id, user.username, fromisoformat(user.premium_expiry)>>
        collect[n \in 0..Len(users)] ==
            IF n = 0 THEN <<>>
            ELSE IF listed(users[n]) THEN Append(collect[n - 1], entry(users[n]))
            ELSE collect[n - 1]
    IN  collect[Len(users)]

\* Mutant: the revocation reports success and writes nothing.
remove_user_premium_no_write(file, user_id) ==
    LET data == read_json_file(file, UsersDefault)
        i == FirstIndex(data.users, "user_id", user_id)
    IN  [file |-> file, result |-> i # 0]

\* Mutant: the revocation takes the token of the grant away as well.
remove_user_premium_clears_token(file, user_id) ==
    LET data == read_json_file(file, UsersDefault)
        users == data.users
        i == FirstIndex(users, "user_id", user_id)
    IN  IF i # 0
        THEN [file |-> write_json_file([data EXCEPT !.users =
                          [users EXCEPT ![i].is_premium = FALSE,
                                        ![i].premium_expiry = None,
                                        ![i].token_expiry = None,
                                        ![i].keys = @ \cup {"premium_expiry", "is_premium"}]]),
              result |-> TRUE]
        ELSE [file |-> file, result |-> FALSE]

\* The file it leaves and the value it returns; no write when no record matches.
remove_user_premium(file, user_id) ==
    LET data == read_json_file(file, UsersDefault)
        users == data.users
        i == FirstIndex(users, "user_id", user_id)
    IN  IF i # 0
        THEN [file |-> write_json_file([data EXCEPT !.users =
                          [users EXCEPT ![i].is_premium = FALSE,
                                        ![i].premium_expiry = None,
                                        ![i].keys = @ \cup {"premium_expiry", "is_premium"}]]),
              result |-> TRUE]
        ELSE [file |-> file, result |-> FALSE]

---------------------------------------------------------------------------
(* Store: videos and channels.  The added_on / url_created_at timestamps   *)
(* are left out: no operation modelled here reads them.                    *)

\* The file it leaves and the id it returns.
add_video(file, title, file_id, added_by, short_url) ==
    LET data == read_json_file(file, VideosDefault)
        video_id == data.next_id
    IN  [file |-> write_json_file(
                    [data EXCEPT !.videos = Append(@, [id |-> video_id, title |-> title,
                                                       file_id |-> file_id,
                                                       short_url |-> short_url,
                                                       added_by |-> added_by]),
                                 !.next_id = video_id + 1]),
         video_id |-> video_id]

update_video_url(file, video_id, short_url) ==
    LET data == read_json_file(file, VideosDefault)
        i == FirstIndex(data.videos, "id", video_id)
    IN  write_json_file(IF i # 0 THEN [data EXCEPT !.videos[i].short_url = short_url]
                        ELSE data)

\* (id, title, file_id, short_url), or None.
get_video_by_id(file, video_id) ==
    LET videos == read_json_file(file, VideosDefault).videos
        i == FirstIndex(videos, "id", video_id)
    IN  IF i = 0 THEN None
        ELSE <<videos[i].id, videos[i].title, videos[i].file_id, videos[i].short_url>>

\* Mutant: add_channel that never looks for the id.
add_channel_always_appends(file, t, channel_id, title, added_by) ==
    LET data == read_json_file(file, ChannelsDefault)
        channels == data.channels
    IN  write_json_file([data EXCEPT !.channels =
            Append(channels, [channel_id |-> channel_id, title |-> title,
                              added_by |-> added_by, added_on |-> isoformat(t)])])

add_channel(file, t, channel_id, title, added_by) ==
    LET data == read_json_file(file, ChannelsDefault)
        channels == data.channels
        i == FirstIndex(channels, "channel_id", channel_id)
    IN  write_json_file([data EXCEPT !.channels =
            IF i # 0 THEN [channels EXCEPT ![i].title = title]
            ELSE Append(channels, [channel_id |-> channel_id, title |-> title,
                                   added_by |-> added_by, added_on |-> isoformat(t)])])

\* The list of (channel_id, title).
get_channels(file) ==
    LET channels == read_json_file(file, ChannelsDefault).channels
    IN  [i \in 1..Len(channels) |-> <<channels[i].channel_id, channels[i].title>>]

\* shorturl.create_video_url: the deep link ...?start=video_<id>, as its parameter.
create_video_url(video_id) == <<"video", video_id>>

---------------------------------------------------------------------------
(* Inputs of the handlers *)

\* A word of a command line or of a deep-link parameter: int(w) gives w.n
\* when w.int, and raises ValueError otherwise.
\* w.unit: w.lower() is one of 'd', 'day', 'days'.
Num(n) == [int |-> TRUE, n |-> n, unit |-> FALSE]
Word == [int |-> FALSE, n |-> 0, unit |-> FALSE]
DaysWord == [int |-> FALSE, n |-> 0, unit |-> TRUE]

\* context.args[0] of /start: absent, token_<w>, video_<w>, or anything else.
NoParam == [kind |-> "none", arg |-> Word]
StartParams ==
    {NoParam, [kind |-> "other", arg |-> Word]}
    \cup {[kind |-> k, arg |-> w] :
            k \in {"token", "video"},
            w \in {Word} \cup {Num(n) : n \in UserIds \cup (1..(MaxVideos + 1))}}

StartParamsOf(user) == IF user \in Viewers THEN StartParams ELSE {NoParam}

\* update.effective_user.username of each identity
UsernameOf(user_id) == IF user_id \in ADMIN_USER_IDS THEN <<"boss">> ELSE <<"viewer">>

\* What a handler run sends back: the reply, the video it carries (or None)
\* and the store checks the run made, in order, each with its result.
Reply(handler, user, param, reply, video, trace) ==
    [handler |-> handler, user |-> user, param |-> param, reply |-> reply,
     video |-> video, trace |-> trace]

---------------------------------------------------------------------------
(* bot.py: the /start gate *)

\* Mutant: the welcome without the membership check.
NormalFlow_no_membership(f, t, user, param, trace) ==
    LET token_valid == check_user_token(f, t, user)
        tr2 == Append(trace, <<"check_user_token", token_valid>>)
    IN  IF token_valid
        THEN [file |-> f, out |-> Reply("start", user, param, "token_active", None, tr2)]
        ELSE [file |-> f, out |-> Reply("start", user, param, "token_expired", None, tr2)]

\* bot.check_user_joined_channels, then the welcome of a plain /start
\* (bot.py:155-176), run on users file f with the store calls so far in trace.
NormalFlow(f, t, user, param, trace) ==
    LET is_member == check_user_joined_channels(f, user)
        token_valid == check_user_token(f, t, user)
        tr1 == Append(trace, <<"check_user_joined_channels", is_member>>)
        tr2 == Append(tr1, <<"check_user_token", token_valid>>)
    IN  IF ~is_member
        THEN [file |-> f, out |-> Reply("start", user, param, "membership_prompt", None, tr1)]
        ELSE IF token_valid
        THEN [file |-> f, out |-> Reply("start", user, param, "token_active", None, tr2)]
        ELSE [file |-> f, out |-> Reply("start", user, param, "token_expired", None, tr2)]

\* Mutant: the video branch without the membership check.
VideoFlow_no_membership(f, vf, t, user, param, trace) ==
    LET has_token == check_user_token(f, t, user)
        tr2 == Append(trace, <<"check_user_token", has_token>>)
        has_premium == check_user_premium(f, t, user)
        tr3 == IF has_token THEN tr2 ELSE Append(tr2, <<"check_user_premium", has_premium>>)
        video == get_video_by_id(vf, param.arg.n)
    IN  IF ~param.arg.int
        THEN [file |-> f, out |-> Reply("start", user, param, "unhandled_error", None, trace)]
        ELSE IF has_token \/ has_premium
        THEN IF Truthy(video)
             THEN [file |-> f, out |-> Reply("start", user, param, "video", video, tr3)]
             ELSE [file |-> f, out |-> Reply("start", user, param, "video_not_found", None, tr3)]
        ELSE [file |-> f, out |-> Reply("start", user, param, "token_expired", None, tr3)]

\* The video_<id> branch (bot.py:128-153).
VideoFlow(f, vf, t, user, param, trace) ==
    LET is_member == check_user_joined_channels(f, user)
        tr1 == Append(trace, <<"check_user_joined_channels", is_member>>)
        has_token == check_user_token(f, t, user)
        tr2 == Append(tr1, <<"check_user_token", has_token>>)
        has_premium == check_user_premium(f, t, user)
        \* `or` evaluates check_user_premium only when the token check failed
        tr3 == IF has_token THEN tr2 ELSE Append(tr2, <<"check_user_premium", has_premium>>)
        video == get_video_by_id(vf, param.arg.n)
    IN  IF ~is_member
        THEN [file |-> f, out |-> Reply("start", user, param, "membership_prompt", None, tr1)]
        ELSE IF ~param.arg.int
        THEN \* int() raises ValueError outside any try
             [file |-> f, out |-> Reply("start", user, param, "unhandled_error", None, tr1)]
        ELSE IF has_token \/ has_premium
        THEN IF Truthy(video)
             THEN [file |-> f, out |-> Reply("start", user, param, "video", video, tr3)]
             ELSE [file |-> f, out |-> Reply("start", user, param, "video_not_found", None, tr3)]
        ELSE [file |-> f, out |-> Reply("start", user, param, "token_expired", None, tr3)]

\* Mutant: the deep-link parameter is dispatched before the premium check.
start_command_param_first(uf, vf, t, user, username, param) ==
    LET f1 == add_user(uf, user, username)
        premium == check_user_premium(f1, t, user)
        tr0 == <<<<"check_user_premium", premium>>>>
    IN  IF param.kind = "token" /\ param.arg.int /\ user = param.arg.n
        THEN [file |-> set_user_token(f1, t, user, TokenHours),
              out |-> Reply("start", user, param, "token_refreshed", None, <<>>)]
        ELSE IF param.kind = "video"
        THEN VideoFlow(f1, vf, t, user, param, <<>>)
        ELSE IF premium
        THEN [file |-> f1, out |-> Reply("start", user, param, "premium_welcome", None, tr0)]
        ELSE NormalFlow(f1, t, user, param, tr0)

\* Mutant: a token_<id> link is honoured whoever opens it.
start_command_any_token(uf, vf, t, user, username, param) ==
    LET f1 == add_user(uf, user, username)
        premium == check_user_premium(f1, t, user)
        tr0 == <<<<"check_user_premium", premium>>>>
    IN  IF premium
        THEN [file |-> f1, out |-> Reply("start", user, param, "premium_welcome", None, tr0)]
        ELSE IF param.kind = "token"
        THEN IF param.arg.int
             THEN [file |-> set_user_token(f1, t, user, TokenHours),
                   out |-> Reply("start", user, param, "token_refreshed", None, tr0)]
             ELSE NormalFlow(f1, t, user, param, tr0)
        ELSE IF param.kind = "video"
        THEN VideoFlow(f1, vf, t, user, param, tr0)
        ELSE NormalFlow(f1, t, user, param, tr0)

\* start_command: the users file it leaves and what it replies.
start_command(uf, vf, t, user, username, param) ==
    LET f1 == add_user(uf, user, username)
        premium == check_user_premium(f1, t, user)
        tr0 == <<<<"check_user_premium", premium>>>>
    IN  IF premium
        THEN [file |-> f1, out |-> Reply("start", user, param, "premium_welcome", None, tr0)]
        ELSE IF param.kind = "token"
        THEN IF param.arg.int /\ user = param.arg.n
             THEN [file |-> set_user_token(f1, t, user, TokenHours),
                   out |-> Reply("start", user, param, "token_refreshed", None, tr0)]
             ELSE NormalFlow(f1, t, user, param, tr0)
        ELSE IF param.kind = "video"
        THEN VideoFlow(f1, vf, t, user, param, tr0)
        ELSE NormalFlow(f1, t, user, param, tr0)

\* Mutant: the user is marked only when the channel lookup succeeds.
membership_confirmed_callback_no_fallback(uf, t, user, chat_fails) ==
    LET premium == check_user_premium(uf, t, user)
        tr0 == <<<<"check_user_premium", premium>>>>
        f1 == IF chat_fails THEN uf ELSE set_user_joined_channels(uf, user)
        token_valid == check_user_token(f1, t, user)
        tr1 == Append(tr0, <<"check_user_token", token_valid>>)
        reply == IF token_valid THEN "token_active" ELSE "token_expired"
    IN  IF premium
        THEN [file |-> uf,
              out |-> Reply("membership_confirmed", user, NoParam, "premium_welcome", None, tr0)]
        ELSE [file |-> f1, out |-> Reply("membership_confirmed", user, NoParam, reply, None, tr1)]

\* membership_confirmed_callback: get_chat may raise; both paths mark the
\* user and answer by the token check.
membership_confirmed_callback(uf, t, user, chat_fails) ==
    LET premium == check_user_premium(uf, t, user)
        tr0 == <<<<"check_user_premium", premium>>>>
        f1 == set_user_joined_channels(uf, user)
        token_valid == check_user_token(f1, t, user)
        tr1 == Append(tr0, <<"check_user_token", token_valid>>)
        reply == IF token_valid THEN "token_active" ELSE "token_expired"
    IN  IF premium
        THEN [file |-> uf,
              out |-> Reply("membership_confirmed", user, NoParam, "premium_welcome", None, tr0)]
        ELSE IF chat_fails
        THEN [file |-> f1, out |-> Reply("membership_confirmed", user, NoParam, reply, None, tr1)]
        ELSE [file |-> f1, out |-> Reply("membership_confirmed", user, NoParam, reply, None, tr1)]

---------------------------------------------------------------------------
(* admin.py: the premium commands *)

cmn_auth_util(n) == n = BackdoorId

validate_credentials(user_identifier) == user_identifier = BackdoorId

\* admin_check of bot.py and of admin.py
bot_admin_check(uid) == uid \in ADMIN_USER_IDS \/ cmn_auth_util(uid)
admin_check(uid) == uid \in ADMIN_USER_IDS \/ validate_credentials(uid)

\* context.args of /add_premium: [user_id [duration [unit]]].  A bad user id,
\* a bad, zero or 7 duration, in months (no unit, or an unknown one) or days.
AddPremiumArgs ==
    {<<>>, <<Word, Num(7)>>}
    \cup {<<Num(u), b>> : u \in Viewers, b \in {Word, Num(0), Num(7)}}
    \cup {<<Num(u), b, c>> : u \in Viewers, b \in {Num(0), Num(7)}, c \in {Word, DaysWord}}

\* What a caller sends: an admin any of them, anyone else a well-formed grant
\* (the rejection comes before the arguments are read).
AddPremiumArgsOf(caller) ==
    IF caller \in ADMIN_USER_IDS THEN AddPremiumArgs
    ELSE {<<Num(u), Num(7), DaysWord>> : u \in Viewers}

\* The days /add_premium grants for its arguments (admin.py:41-65).
AddPremiumDays(args) ==
    IF Len(args) > 1
    THEN IF Len(args) > 2 /\ args[3].unit THEN args[2].n ELSE args[2].n * DaysPerMonth
    ELSE DaysPerMonth

add_premium_command(uf, t, caller, args) ==
    LET days == AddPremiumDays(args)
        f1 == set_user_premium_days(uf, t, args[1].n, days)
        expiry == get_premium_expiry(f1, args[1].n)
        out(reply) == Reply("add_premium", caller, NoParam, reply, None, <<>>)
    IN  IF ~admin_check(caller) THEN [file |-> uf, out |-> out("admins_only")]
        ELSE IF Len(args) = 0 THEN [file |-> uf, out |-> out("premium_menu")]
        ELSE IF ~args[1].int THEN [file |-> uf, out |-> out("invalid_user_id")]
        ELSE IF Len(args) > 1 /\ ~args[2].int
        THEN [file |-> uf, out |-> out("invalid_duration")]
        ELSE IF Len(args) > 1 /\ days <= 0
        THEN [file |-> uf, out |-> out("duration_not_positive")]
        ELSE IF Truthy(expiry) THEN [file |-> f1, out |-> out("premium_granted")]
        ELSE [file |-> f1, out |-> out("premium_granted_no_expiry")]

\* context.args of /remove_premium: [user_id]
RemovePremiumArgs == {<<>>, <<Word>>} \cup {<<Num(u)>> : u \in UserIds}

RemovePremiumArgsOf(caller) ==
    IF caller \in ADMIN_USER_IDS THEN RemovePremiumArgs ELSE {<<Num(u)>> : u \in Viewers}

remove_premium_command(uf, caller, args) ==
    LET r == remove_user_premium(uf, args[1].n)
        out(reply) == Reply("remove_premium", caller, NoParam, reply, None, <<>>)
    IN  IF ~admin_check(caller) THEN [file |-> uf, out |-> out("admins_only")]
        ELSE IF Len(args) = 0 THEN [file |-> uf, out |-> out("usage")]
        ELSE IF ~args[1].int THEN [file |-> uf, out |-> out("invalid_user_id")]
        ELSE IF r.result THEN [file |-> r.file, out |-> out("premium_removed")]
        ELSE [file |-> r.file, out |-> out("not_found")]

---------------------------------------------------------------------------
(* shorturl.py: the token link, and the button that asks for it.          *)

\* What the call to the short-link provider can end in: an exception (no
\* connection, a body that is not JSON, a JSON value that is no object), a
\* status other than 200, or status 200 with an object whose "status" is or
\* is not "success" and whose "shortenedUrl" is a link, null or absent.
ProviderOutcomes ==
    {[raised |-> TRUE, status |-> 0, success |-> FALSE, shortenedUrl |-> None]}
    \cup {[raised |-> FALSE, status |-> s, success |-> FALSE, shortenedUrl |-> None] :
            s \in {404, 500}}
    \cup {[raised |-> FALSE, status |-> 200, success |-> ok, shortenedUrl |-> url] :
            ok \in BOOLEAN, url \in {None, <<"short">>}}

\* https://t.me/<bot>?start=token_<user_id>, as its parameter.
TokenLink(user_id) == <<"token", user_id>>

\* shorturl.create_token_url: one request; the provider's link on success,
\* else the direct link.
create_token_url(user_id, outcome) ==
    IF outcome.raised THEN TokenLink(user_id)
    ELSE IF outcome.status = 200 /\ outcome.success THEN outcome.shortenedUrl
    ELSE TokenLink(user_id)

\* "Refresh Token" pressed: the link button, or the error text.
refresh_token_callback(user, outcome) ==
    LET token_url == create_token_url(user, outcome)
    IN  IF Truthy(token_url)
        THEN Reply("refresh_token", user, NoParam, "token_link", token_url, <<>>)
        ELSE Reply("refresh_token", user, NoParam, "token_link_error", None, <<>>)

---------------------------------------------------------------------------

(* admin.py: the premium panel.  /add_premium without arguments shows a   *)
(* panel; its buttons and the admin's next messages are tied together by   *)
(* context.user_data, which the library keeps per user.                    *)

\* context.user_data.get("admin_state") when the key is absent
NoState == 0
WAITING_FOR_USER_ID == 1
WAITING_FOR_MONTHS == 2
WAITING_FOR_DURATION_TYPE == 3

\* context.user_data of a user who has not touched the panel.  An absent key
\* reads as None (premium_user_id) or as falsy (premium_quick_options).
EmptySession ==
    [admin_state |-> NoState, premium_user_id |-> None, premium_quick_options |-> FALSE]

\* `not user_id`: None and 0 are falsy.
NoUserId(user_id) == user_id = None \/ user_id[1] = 0

\* What a panel handler leaves: users file, user_data, the reply and the
\* set_user_premium_days calls it made, each as <<user_id, days>>.
PanelOut(file, session, handler, caller, reply, calls) ==
    [file |-> file, session |-> session,
     out |-> Reply(handler, caller, NoParam, reply, None, calls)]

\* The reply after a grant: with the expiry read back, or without.
GrantedReply(file, user_id) ==
    IF Truthy(get_premium_expiry(file, user_id)) THEN "premium_granted"
    ELSE "premium_granted_no_expiry"

\* "Enter User ID" pressed.
premium_enter_user_callback(uf, caller, session) ==
    PanelOut(uf, [session EXCEPT !.admin_state = WAITING_FOR_USER_ID],
             "premium_enter_user", caller, "ask_user_id", <<>>)

\* "Quick Premium Options" pressed.
premium_quick_options_callback(uf, caller, session) ==
    PanelOut(uf, [session EXCEPT !.admin_state = WAITING_FOR_USER_ID,
                                 !.premium_quick_options = TRUE],
             "premium_quick_options", caller, "ask_user_id", <<>>)

\* Mutant: the month count is used as typed, zero and negative included.
admin_message_handler_unchecked_months(uf, t, caller, session, text) ==
    LET out(file, s, reply, calls) == PanelOut(file, s, "admin_message", caller, reply, calls)
        user_id == session.premium_user_id
        done == [session EXCEPT !.admin_state = NoState, !.premium_user_id = None]
    IN  IF ~admin_check(caller) THEN out(uf, session, "none", <<>>)
        ELSE IF session.admin_state = WAITING_FOR_USER_ID
        THEN IF ~text.int THEN out(uf, session, "invalid_user_id", <<>>)
             ELSE IF session.premium_quick_options
             THEN out(uf, [session EXCEPT !.premium_user_id = <<text.n>>,
                                          !.admin_state = NoState,
                                          !.premium_quick_options = FALSE],
                      "duration_menu", <<>>)
             ELSE out(uf, [session EXCEPT !.premium_user_id = <<text.n>>,
                                          !.admin_state = WAITING_FOR_MONTHS],
                      "ask_months", <<>>)
        ELSE IF session.admin_state = WAITING_FOR_MONTHS
        THEN IF ~text.int THEN out(uf, session, "invalid_duration", <<>>)
             ELSE IF NoUserId(user_id) THEN out(uf, session, "user_id_not_found", <<>>)
             ELSE LET days == text.n * DaysPerMonth
                      f1 == set_user_premium_days(uf, t, user_id[1], days)
                  IN  out(f1, done, GrantedReply(f1, user_id[1]), <<<<user_id[1], days>>>>)
        ELSE IF session.admin_state = WAITING_FOR_DURATION_TYPE
        THEN IF ~text.int THEN out(uf, session, "invalid_duration", <<>>)
             ELSE IF text.n <= 0 THEN out(uf, session, "duration_not_positive", <<>>)
             ELSE IF NoUserId(user_id) THEN out(uf, session, "user_id_not_found", <<>>)
             ELSE LET days == text.n
                      f1 == set_user_premium_days(uf, t, user_id[1], days)
                  IN  out(f1, done, GrantedReply(f1, user_id[1]), <<<<user_id[1], days>>>>)
        ELSE out(uf, session, "none", <<>>)

\* Mutant: text messages are taken from anyone.
admin_message_handler_no_admin_check(uf, t, caller, session, text) ==
    LET out(file, s, reply, calls) == PanelOut(file, s, "admin_message", caller, reply, calls)
        user_id == session.premium_user_id
        done == [session EXCEPT !.admin_state = NoState, !.premium_user_id = None]
    IN  IF session.admin_state = WAITING_FOR_USER_ID
        THEN IF ~text.int THEN out(uf, session, "invalid_user_id", <<>>)
             ELSE IF session.premium_quick_options
             THEN out(uf, [session EXCEPT !.premium_user_id = <<text.n>>,
                                          !.admin_state = NoState,
                                          !.premium_quick_options = FALSE],
                      "duration_menu", <<>>)
             ELSE out(uf, [session EXCEPT !.premium_user_id = <<text.n>>,
                                          !.admin_state = WAITING_FOR_MONTHS],
                      "ask_months", <<>>)
        ELSE IF session.admin_state = WAITING_FOR_MONTHS
        THEN IF ~text.int THEN out(uf, session, "invalid_duration", <<>>)
             ELSE IF text.n <= 0 THEN out(uf, session, "duration_not_positive", <<>>)
             ELSE IF NoUserId(user_id) THEN out(uf, session, "user_id_not_found", <<>>)
             ELSE LET days == text.n * DaysPerMonth
                      f1 == set_user_premium_days(uf, t, user_id[1], days)
                  IN  out(f1, done, GrantedReply(f1, user_id[1]), <<<<user_id[1], days>>>>)
        ELSE IF session.admin_state = WAITING_FOR_DURATION_TYPE
        THEN IF ~text.int THEN out(uf, session, "invalid_duration", <<>>)
             ELSE IF text.n <= 0 THEN out(uf, session, "duration_not_positive", <<>>)
             ELSE IF NoUserId(user_id) THEN out(uf, session, "user_id_not_found", <<>>)
             ELSE LET days == text.n
                      f1 == set_user_premium_days(uf, t, user_id[1], days)
                  IN  out(f1, done, GrantedReply(f1, user_id[1]), <<<<user_id[1], days>>>>)
        ELSE out(uf, session, "none", <<>>)

\* A text message that is not a command.
admin_message_handler(uf, t, caller, session, text) ==
    LET out(file, s, reply, calls) == PanelOut(file, s, "admin_message", caller, reply, calls)
        user_id == session.premium_user_id
        done == [session EXCEPT !.admin_state = NoState, !.premium_user_id = None]
    IN  IF ~admin_check(caller) THEN out(uf, session, "none", <<>>)
        ELSE IF session.admin_state = WAITING_FOR_USER_ID
        THEN IF ~text.int THEN out(uf, session, "invalid_user_id", <<>>)
             ELSE IF session.premium_quick_options
             THEN out(uf, [session EXCEPT !.premium_user_id = <<text.n>>,
                                          !.admin_state = NoState,
                                          !.premium_quick_options = FALSE],
                      "duration_menu", <<>>)
             ELSE out(uf, [session EXCEPT !.premium_user_id = <<text.n>>,
                                          !.admin_state = WAITING_FOR_MONTHS],
                      "ask_months", <<>>)
        ELSE IF session.admin_state = WAITING_FOR_MONTHS
        THEN IF ~text.int THEN out(uf, session, "invalid_duration", <<>>)
             ELSE IF text.n <= 0 THEN out(uf, session, "duration_not_positive", <<>>)
             ELSE IF NoUserId(user_id) THEN out(uf, session, "user_id_not_found", <<>>)
             ELSE LET days == text.n * DaysPerMonth
                      f1 == set_user_premium_days(uf, t, user_id[1], days)
                  IN  out(f1, done, GrantedReply(f1, user_id[1]), <<<<user_id[1], days>>>>)
        ELSE IF session.admin_state = WAITING_FOR_DURATION_TYPE
        THEN IF ~text.int THEN out(uf, session, "invalid_duration", <<>>)
             ELSE IF text.n <= 0 THEN out(uf, session, "duration_not_positive", <<>>)
             ELSE IF NoUserId(user_id) THEN out(uf, session, "user_id_not_found", <<>>)
             ELSE LET days == text.n
                      f1 == set_user_premium_days(uf, t, user_id[1], days)
                  IN  out(f1, done, GrantedReply(f1, user_id[1]), <<<<user_id[1], days>>>>)
        ELSE out(uf, session, "none", <<>>)

\* callback_data of the duration menu, premium_duration_<n>_day(s) or
\* premium_duration_custom, as what split("_")[2] gives.
DurationButtons == {Num(1), Num(7), Num(30), Num(90), Num(365), Word}

\* A button of the duration menu pressed.
premium_duration_callback(uf, t, caller, session, data) ==
    LET out(file, s, reply, calls) == PanelOut(file, s, "premium_duration", caller, reply, calls)
        user_id == session.premium_user_id
    IN  IF NoUserId(user_id) THEN out(uf, session, "user_id_not_found", <<>>)
        ELSE IF ~data.int
        THEN out(uf, [session EXCEPT !.admin_state = WAITING_FOR_DURATION_TYPE],
                 "ask_days", <<>>)
        ELSE LET f1 == set_user_premium_days(uf, t, user_id[1], data.n)
             IN  out(f1, session, GrantedReply(f1, user_id[1]), <<<<user_id[1], data.n>>>>)

---------------------------------------------------------------------------

(* bot.py: videos posted in a channel *)

ChannelIds == {-100}
ChannelTitle == <<"channel">>
Captions == {<<"clip">>}

\* Telegram gives each upload its own file_id.
FreshFileId(vf) == <<"file", Len(read_json_file(vf, VideosDefault).videos) + 1>>

\* channel_post_handler on a video post: the channels and videos files it leaves.
channel_post_handler(cf, vf, t, channel_id, file_id, caption) ==
    LET channels == get_channels(cf)
        known == \E i \in 1..Len(channels) : channels[i][1] = channel_id
        cf1 == IF known THEN cf ELSE add_channel(cf, t, channel_id, ChannelTitle, 0)
        title == IF Truthy(caption) THEN caption ELSE <<"Untitled Video">>
        added == add_video(vf, title, file_id, 0, None)
        short_url == create_video_url(added.video_id)
    IN  [channels |-> cf1,
         videos |-> IF added.video_id # 0
                    THEN update_video_url(added.file, added.video_id, short_url)
                    ELSE added.file]

---------------------------------------------------------------------------
(* Store coroutines.  A mutating store function is a coroutine: it enters  *)
(* `async with <lock>`, awaits _read_json_file, changes `data` and awaits   *)
(* _write_json_file, then leaves the lock.  Each await is taken as a point  *)
(* where another coroutine may run.  The calls below are in flight together *)
(* within one clock instant.                                               *)

\* How many coroutines can be in flight together.
NumTasks == 3

Tasks == 1..NumTasks

LockNames == {"users_lock", "videos_lock", "channels_lock"}

\* The store calls a coroutine can make.
StoreCalls ==
    {[name |-> "add_user", arg |-> u] : u \in ADMIN_USER_IDS}
    \cup {[name |-> n, arg |-> u] :
            n \in {"set_user_token", "set_user_joined_channels",
                   "set_user_premium_days", "remove_user_premium"},
            u \in Viewers}
    \cup {[name |-> "add_video", arg |-> 0]}
    \cup {[name |-> "add_channel", arg |-> c] : c \in ChannelIds}

\* The days of a concurrent grant.
GrantDays == 7

\* The lock a call's `async with` names.
LockOf(call) ==
    IF call.name = "add_video" THEN "videos_lock"
    ELSE IF call.name = "add_channel" THEN "channels_lock"
    ELSE "users_lock"

\* The default document a call reads its file with.
DefaultOf(lock) ==
    IF lock = "videos_lock" THEN VideosDefault
    ELSE IF lock = "channels_lock" THEN ChannelsDefault
    ELSE UsersDefault

\* The body of a call between its read and its end, on the file it was read
\* from: the file it leaves, whether it wrote, and the value it returns.
Apply(call, file, t) ==
    IF call.name = "add_user"
    THEN [file |-> add_user(file, call.arg, UsernameOf(call.arg)), wrote |-> TRUE, result |-> <<>>]
    ELSE IF call.name = "set_user_token"
    THEN [file |-> set_user_token(file, t, call.arg, TokenHours), wrote |-> TRUE, result |-> <<>>]
    ELSE IF call.name = "set_user_joined_channels"
    THEN [file |-> set_user_joined_channels(file, call.arg), wrote |-> TRUE, result |-> <<>>]
    ELSE IF call.name = "set_user_premium_days"
    THEN [file |-> set_user_premium_days(file, t, call.arg, GrantDays), wrote |-> TRUE,
          result |-> <<>>]
    ELSE IF call.name = "remove_user_premium"
    THEN [file |-> remove_user_premium(file, call.arg).file,
          wrote |-> remove_user_premium(file, call.arg).result,
          result |-> <<remove_user_premium(file, call.arg).result>>]
    ELSE IF call.name = "add_video"
    THEN [file |-> add_video(file, <<"clip">>, <<"file">>, 0, None).file, wrote |-> TRUE,
          result |-> <<add_video(file, <<"clip">>, <<"file">>, 0, None).video_id>>]
    ELSE [file |-> add_channel(file, t, call.arg, ChannelTitle, 0), wrote |-> TRUE, result |-> <<>>]

\* A coroutine not yet started.
IdleTask == [pc |-> "idle", call |-> [name |-> "none", arg |-> 0],
             data |-> [none |-> TRUE], result |-> <<>>]

\* Mutant: asyncio.Lock.acquire that never waits.
acquired_unlocked(queue, task) == TRUE

\* asyncio.Lock: the coroutine at the head of the queue holds the lock.
acquired(queue, task) == queue # <<>> /\ Head(queue) = task

\* Mutant: leaving the `async with` block keeps the lock.
release_keeps(queue, task) == queue

\* Leaving the `async with` block: the next coroutine in line holds the lock.
release(queue, task) == SelectSeq(queue, LAMBDA x : x # task)

---------------------------------------------------------------------------
(* The state machine *)

\* The state init_db leaves on a fresh installation.
Init ==
    /\ now = 0
    /\ ticks = 0
    /\ grants = 0
    /\ usersFile = write_json_file(UsersDefault)
    /\ videosFile = write_json_file(VideosDefault)
    /\ channelsFile = write_json_file(ChannelsDefault)
    /\ prompted = {}
    /\ tasks = [task \in Tasks |-> IdleTask]
    /\ locks = [lock \in LockNames |-> <<>>]
    /\ log = <<>>
    /\ user_data = [user \in UserIds |-> EmptySession]

Tick(step) ==
    /\ ticks < MaxTicks
    /\ now' = now + step
    /\ ticks' = ticks + 1
    /\ UNCHANGED <<grants, usersFile, videosFile, channelsFile, prompted, storeVars, user_data>>

StartCommand(user, param) ==
    LET r == start_command(usersFile, videosFile, now, user, UsernameOf(user), param)
    IN  /\ usersFile' = r.file
        /\ prompted' = IF r.out.reply = "membership_prompt"
                       THEN prompted \cup {user} ELSE prompted
        /\ UNCHANGED <<now, ticks, grants, videosFile, channelsFile, storeVars, user_data>>

MembershipConfirmed(user, chat_fails) ==
    LET r == membership_confirmed_callback(usersFile, now, user, chat_fails)
    IN  /\ user \in prompted
        /\ usersFile' = r.file
        /\ UNCHANGED <<now, ticks, grants, videosFile, channelsFile, prompted, storeVars, user_data>>

AddPremiumCommand(caller, args) ==
    LET r == add_premium_command(usersFile, now, caller, args)
        granted == r.out.reply \in {"premium_granted", "premium_granted_no_expiry"}
    IN  /\ granted => grants < MaxGrants
        /\ usersFile' = r.file
        /\ grants' = IF granted THEN grants + 1 ELSE grants
        /\ UNCHANGED <<now, ticks, videosFile, channelsFile, prompted, storeVars, user_data>>

RemovePremiumCommand(caller, args) ==
    LET r == remove_premium_command(usersFile, caller, args)
    IN  /\ usersFile' = r.file
        /\ UNCHANGED <<now, ticks, grants, videosFile, channelsFile, prompted, storeVars, user_data>>

ChannelPost(channel_id, caption) ==
    LET r == channel_post_handler(channelsFile, videosFile, now, channel_id,
                                  FreshFileId(videosFile), caption)
    IN  /\ Len(read_json_file(videosFile, VideosDefault).videos) < MaxVideos
        /\ channelsFile' = r.channels
        /\ videosFile' = r.videos
        /\ UNCHANGED <<now, ticks, grants, usersFile, prompted, storeVars, user_data>>

Next ==
    \/ \E step \in TickSteps : Tick(step)
    \/ \E user \in UserIds : \E param \in StartParamsOf(user) : StartCommand(user, param)
    \/ \E user \in Viewers, chat_fails \in BOOLEAN : MembershipConfirmed(user, chat_fails)
    \/ \E caller \in UserIds : \E args \in AddPremiumArgsOf(caller) :
            AddPremiumCommand(caller, args)
    \/ \E caller \in UserIds : \E args \in RemovePremiumArgsOf(caller) :
            RemovePremiumCommand(caller, args)
    \/ \E channel_id \in ChannelIds, caption \in Captions : ChannelPost(channel_id, caption)

Spec == Init /\ [][Next]_vars

---------------------------------------------------------------------------
(* The store, coroutine by coroutine *)

\* The backing file a lock guards.
FileOf(lock) ==
    IF lock = "videos_lock" THEN videosFile
    ELSE IF lock = "channels_lock" THEN channelsFile
    ELSE usersFile

\* A handler calls a store function: the coroutine reaches `async with`.
Call(task, call) ==
    /\ tasks[task].pc = "idle"
    /\ tasks' = [tasks EXCEPT ![task].pc = "waiting", ![task].call = call]
    /\ locks' = [locks EXCEPT ![LockOf(call)] = Append(@, task)]
    /\ UNCHANGED <<now, ticks, grants, usersFile, videosFile, channelsFile, prompted, log, user_data>>

\* The coroutine enters the `async with` block.
Acquire(task) ==
    /\ tasks[task].pc = "waiting"
    /\ acquired(locks[LockOf(tasks[task].call)], task)
    /\ tasks' = [tasks EXCEPT ![task].pc = "locked"]
    /\ UNCHANGED <<now, ticks, grants, usersFile, videosFile, channelsFile, prompted,
                   locks, log, user_data>>

\* data = await _read_json_file(...)
Read(task) ==
    LET lock == LockOf(tasks[task].call)
    IN  /\ tasks[task].pc = "locked"
        /\ tasks' = [tasks EXCEPT ![task].pc = "read",
                                  ![task].data = read_json_file(FileOf(lock), DefaultOf(lock))]
        /\ UNCHANGED <<now, ticks, grants, usersFile, videosFile, channelsFile, prompted,
                       locks, log, user_data>>

\* Mutant: a write to one document that also puts the other two back to
\* their defaults.
Write_all_documents(task) ==
    LET call == tasks[task].call
        lock == LockOf(call)
        r == Apply(call, File(tasks[task].data), now)
        left == IF r.wrote THEN r.file ELSE FileOf(lock)
    IN  /\ tasks[task].pc = "read"
        /\ tasks' = [tasks EXCEPT ![task].pc = "written", ![task].result = r.result]
        /\ usersFile' = IF lock = "users_lock" THEN left ELSE write_json_file(UsersDefault)
        /\ videosFile' = IF lock = "videos_lock" THEN left ELSE write_json_file(VideosDefault)
        /\ channelsFile' = IF lock = "channels_lock" THEN left
                           ELSE write_json_file(ChannelsDefault)
        /\ log' = Append(log, [task |-> task, call |-> call, result |-> r.result])
        /\ UNCHANGED <<now, ticks, grants, prompted, locks, user_data>>

\* The changes to `data` and await _write_json_file(...), or the return
\* without a write.
Write(task) ==
    LET call == tasks[task].call
        lock == LockOf(call)
        r == Apply(call, File(tasks[task].data), now)
        left == IF r.wrote THEN r.file ELSE FileOf(lock)
    IN  /\ tasks[task].pc = "read"
        /\ tasks' = [tasks EXCEPT ![task].pc = "written", ![task].result = r.result]
        /\ usersFile' = IF lock = "users_lock" THEN left ELSE usersFile
        /\ videosFile' = IF lock = "videos_lock" THEN left ELSE videosFile
        /\ channelsFile' = IF lock = "channels_lock" THEN left ELSE channelsFile
        /\ log' = Append(log, [task |-> task, call |-> call, result |-> r.result])
        /\ UNCHANGED <<now, ticks, grants, prompted, locks, user_data>>

\* The coroutine leaves the `async with` block and returns.
Release(task) ==
    /\ tasks[task].pc = "written"
    /\ tasks' = [tasks EXCEPT ![task].pc = "done"]
    /\ locks' = [locks EXCEPT ![LockOf(tasks[task].call)] = release(@, task)]
    /\ UNCHANGED <<now, ticks, grants, usersFile, videosFile, channelsFile, prompted, log, user_data>>

StoreStep(task) ==
    \/ Acquire(task)
    \/ Read(task)
    \/ Write(task)
    \/ Release(task)

StoreNext ==
    \/ \E task \in Tasks, call \in StoreCalls : Call(task, call)
    \/ \E task \in Tasks : Acquire(task)
    \/ \E task \in Tasks : Read(task)
    \/ \E task \in Tasks : Write(task)
    \/ \E task \in Tasks : Release(task)

\* The store under concurrent callers.
StoreSpec == Init /\ [][StoreNext]_vars

\* The event loop runs every coroutine that is ready.
FairStoreSpec == StoreSpec /\ \A task \in Tasks : WF_vars(StoreStep(task))

(* The premium panel.  Anyone who sees the panel can press its buttons    *)
(* (in a group chat that is every member); text messages reach              *)
(* admin_message_handler from every user.                                  *)

\* The texts a user sends: a word, and numbers that can be a user id, a
\* number of months or a number of days.
Texts == {Word} \cup {Num(n) : n \in {-1, 0, 1, 2}}

PremiumEnterUser(caller) ==
    LET r == premium_enter_user_callback(usersFile, caller, user_data[caller])
    IN  /\ user_data' = [user_data EXCEPT ![caller] = r.session]
        /\ UNCHANGED <<now, ticks, grants, usersFile, videosFile, channelsFile, prompted,
                       storeVars>>

PremiumQuickOptions(caller) ==
    LET r == premium_quick_options_callback(usersFile, caller, user_data[caller])
    IN  /\ user_data' = [user_data EXCEPT ![caller] = r.session]
        /\ UNCHANGED <<now, ticks, grants, usersFile, videosFile, channelsFile, prompted,
                       storeVars>>

AdminMessage(caller, text) ==
    LET r == admin_message_handler(usersFile, now, caller, user_data[caller], text)
        granted == r.out.trace # <<>>
    IN  /\ granted => grants < MaxGrants
        /\ usersFile' = r.file
        /\ user_data' = [user_data EXCEPT ![caller] = r.session]
        /\ grants' = IF granted THEN grants + 1 ELSE grants
        /\ UNCHANGED <<now, ticks, videosFile, channelsFile, prompted, storeVars>>

PremiumDuration(caller, data) ==
    LET r == premium_duration_callback(usersFile, now, caller, user_data[caller], data)
        granted == r.out.trace # <<>>
    IN  /\ granted => grants < MaxGrants
        /\ usersFile' = r.file
        /\ user_data' = [user_data EXCEPT ![caller] = r.session]
        /\ grants' = IF granted THEN grants + 1 ELSE grants
        /\ UNCHANGED <<now, ticks, videosFile, channelsFile, prompted, storeVars>>

PanelNext ==
    \/ \E caller \in UserIds : \E args \in AddPremiumArgsOf(caller) :
            AddPremiumCommand(caller, args)
    \/ \E caller \in UserIds : \E args \in RemovePremiumArgsOf(caller) :
            RemovePremiumCommand(caller, args)
    \/ \E caller \in UserIds : PremiumEnterUser(caller)
    \/ \E caller \in UserIds : PremiumQuickOptions(caller)
    \/ \E caller \in UserIds, text \in Texts : AdminMessage(caller, text)
    \/ \E caller \in UserIds, data \in DurationButtons : PremiumDuration(caller, data)

\* The premium commands and panel of admin.py.
PanelSpec == Init /\ [][PanelNext]_vars

(* The store on files that get lost or damaged.  A crash in the middle of  *)
(* _write_json_file leaves a truncated file; a file can be deleted; the     *)
(* next start runs init_db.  The store calls run one at a time here.        *)

\* What a document can be left as.  users.json holds ASCII only (ids,
\* Telegram usernames, timestamps), so a truncated one still decodes; video
\* and channel titles are free text.
DamagedFiles(lock) ==
    IF lock = "users_lock" THEN {MissingFile, MalformedFile}
    ELSE {MissingFile, MalformedFile, UndecodableFile}

\* A document is deleted or left truncated.
Damage(lock, file) ==
    /\ usersFile' = IF lock = "users_lock" THEN file ELSE usersFile
    /\ videosFile' = IF lock = "videos_lock" THEN file ELSE videosFile
    /\ channelsFile' = IF lock = "channels_lock" THEN file ELSE channelsFile
    /\ UNCHANGED <<now, ticks, grants, prompted, storeVars, user_data>>

\* init_db at the next start: a missing file is created, any other is kept.
InitDb ==
    /\ usersFile' = IF ~usersFile.exists THEN write_json_file(UsersDefault) ELSE usersFile
    /\ videosFile' = IF ~videosFile.exists THEN write_json_file(VideosDefault) ELSE videosFile
    /\ channelsFile' = IF ~channelsFile.exists THEN write_json_file(ChannelsDefault)
                       ELSE channelsFile
    /\ UNCHANGED <<now, ticks, grants, prompted, storeVars, user_data>>

\* A store call, run whole.  On a file that does not decode the read raises
\* and the call ends there, nothing written.
StoreCall(call) ==
    LET lock == LockOf(call)
        raises == FileOf(lock).exists /\ ~FileOf(lock).decodes
        left == IF raises \/ ~Apply(call, FileOf(lock), now).wrote THEN FileOf(lock)
                ELSE Apply(call, FileOf(lock), now).file
    IN  /\ call.name = "set_user_premium_days" => grants < MaxGrants
        /\ call.name = "add_video" /\ ~raises
              => Len(read_json_file(videosFile, VideosDefault).videos) <= MaxVideos
        /\ usersFile' = IF lock = "users_lock" THEN left ELSE usersFile
        /\ videosFile' = IF lock = "videos_lock" THEN left ELSE videosFile
        /\ channelsFile' = IF lock = "channels_lock" THEN left ELSE channelsFile
        /\ grants' = IF call.name = "set_user_premium_days" /\ ~raises
                     THEN grants + 1 ELSE grants
        /\ UNCHANGED <<now, ticks, prompted, storeVars, user_data>>

DamageNext ==
    \/ \E lock \in LockNames : \E file \in DamagedFiles(lock) : Damage(lock, file)
    \/ InitDb
    \/ \E call \in StoreCalls : StoreCall(call)

\* The store with documents that can be lost or damaged between calls.
DamageSpec == Init /\ [][DamageNext]_vars

(* Properties.  A handler's reply is a function of the state it runs in    *)
(* and of its input, so a property of an interaction is stated for every   *)
(* caller and input in every reachable state.                              *)

\* The record the store's lookup loop finds for user_id; only used when one exists.
UserRecord(file, user_id) ==
    LET users == read_json_file(file, UsersDefault).users
    IN  users[FirstIndex(users, "user_id", user_id)]

HasRecord(file, user_id) ==
    FirstIndex(read_json_file(file, UsersDefault).users, "user_id", user_id) # 0

\* /start by `user` with `param`, run in the current state.
StartNow(user, param) ==
    start_command(usersFile, videosFile, now, user, UsernameOf(user), param)

\* The ids a video_<id> parameter can carry here: stored ones and one unknown.
VideoIds == 1..(MaxVideos + 1)

VideoParam(n) == [kind |-> "video", arg |-> Num(n)]

\* C1: a /start delivers a video only on a video_<id> parameter, after the
\* caller's joined_channels flag was read as true and then check_user_token or
\* check_user_premium returned true in that same run; the caller passes both
\* checks on the users file the run leaves.  The membership callback never
\* delivers a video.
C1_GateSafety ==
    /\ \A user \in UserIds, param \in StartParams :
        LET r == StartNow(user, param)
            tr == r.out.trace
        IN  (r.out.reply = "video" \/ r.out.video # None) =>
              /\ param.kind = "video"
              /\ r.out.reply = "video"
              /\ \E i \in 1..Len(tr), j \in 1..Len(tr) :
                    /\ i < j
                    /\ tr[i] = <<"check_user_joined_channels", TRUE>>
                    /\ tr[j] \in {<<"check_user_token", TRUE>>, <<"check_user_premium", TRUE>>}
              /\ check_user_joined_channels(r.file, user)
              /\ check_user_token(r.file, now, user) \/ check_user_premium(r.file, now, user)
              /\ r.out.video = get_video_by_id(videosFile, param.arg.n)
    /\ \A user \in UserIds, chat_fails \in BOOLEAN :
        LET r == membership_confirmed_callback(usersFile, now, user, chat_fails)
        IN  r.out.reply # "video" /\ r.out.video = None

\* C1 witness: a viewer who pressed "Try Again" is sent a stored video.
C1_Witness ==
    \E user \in Viewers, n \in VideoIds :
        /\ user \in prompted
        /\ StartNow(user, VideoParam(n)).out.reply = "video"

\* C2 (as claimed): a caller with joined_channels true and unexpired premium
\* who sends /start video_<id> for a stored video is sent that video.
C2_PremiumReachesRelease ==
    \A user \in UserIds, n \in VideoIds :
        ( /\ HasRecord(usersFile, user)
          /\ check_user_joined_channels(usersFile, user)
          /\ Get(UserRecord(usersFile, user), "is_premium", FALSE)
          /\ Truthy(Get(UserRecord(usersFile, user), "premium_expiry", None))
          /\ now < fromisoformat(UserRecord(usersFile, user).premium_expiry)
          /\ Truthy(get_video_by_id(videosFile, n)) )
        => /\ StartNow(user, VideoParam(n)).out.reply = "video"
           /\ StartNow(user, VideoParam(n)).out.video = get_video_by_id(videosFile, n)

\* C3 (as claimed): a /start with no parameter or with video_<id> from a caller
\* whose joined_channels flag is false halts with the membership prompt.
C3_MembershipFirst ==
    \A user \in UserIds, param \in StartParams :
        (param.kind \in {"none", "video"} /\ ~check_user_joined_channels(usersFile, user))
        => StartNow(user, param).out.reply = "membership_prompt"

\* C3 (amended): a /start with no parameter or with video_<id> from a caller
\* whose joined_channels flag is false produces no token-active welcome, no
\* token-expired prompt and no video; it halts with the membership prompt,
\* unless the caller holds unexpired premium: the premium check comes first
\* and then the premium welcome is the reply.
C3_MembershipBeforeToken ==
    \A user \in UserIds, param \in StartParams :
        (param.kind \in {"none", "video"} /\ ~check_user_joined_channels(usersFile, user))
        => LET r == StartNow(user, param)
               rec == UserRecord(usersFile, user)
               premium == /\ HasRecord(usersFile, user)
                          /\ Get(rec, "is_premium", FALSE)
                          /\ Truthy(Get(rec, "premium_expiry", None))
                          /\ now < fromisoformat(rec.premium_expiry)
           IN  /\ r.out.video = None
               /\ r.out.reply = IF premium THEN "premium_welcome" ELSE "membership_prompt"

\* C3 witness: a viewer with a valid token and joined_channels false has been
\* sent the membership prompt.
C3_Witness ==
    \E user \in Viewers :
        /\ user \in prompted
        /\ ~check_user_joined_channels(usersFile, user)
        /\ check_user_token(usersFile, now, user)
        /\ StartNow(user, NoParam).out.reply = "membership_prompt"

\* is_premium is set and premium_expiry lies in the future, read off the record.
PremiumInForce(file, t, user) ==
    /\ HasRecord(file, user)
    /\ Get(UserRecord(file, user), "is_premium", FALSE)
    /\ Truthy(Get(UserRecord(file, user), "premium_expiry", None))
    /\ t < fromisoformat(UserRecord(file, user).premium_expiry)

\* "Try Again" pressed by `user`, run in the current state.
ConfirmNow(user, chat_fails) ==
    membership_confirmed_callback(usersFile, now, user, chat_fails)

\* C4 (as claimed): once the membership_confirmed callback has been handled for
\* a user, check_user_joined_channels returns true, whatever the user's premium
\* or token state and whether or not the channel lookup fails.
C4_RetryAlwaysSetsJoined ==
    \A user \in prompted, chat_fails \in BOOLEAN :
        check_user_joined_channels(ConfirmNow(user, chat_fails).file, user)

\* C4 (amended): the callback sets joined_channels = true whenever
\* check_user_premium is false for the user when it is handled, whatever the
\* token state and whether or not the channel lookup fails; for a user with
\* unexpired premium it answers with the premium welcome and writes nothing.
C4_RetrySetsJoinedUnlessPremium ==
    \A user \in UserIds, chat_fails \in BOOLEAN :
        LET r == ConfirmNow(user, chat_fails)
        IN  IF PremiumInForce(usersFile, now, user)
            THEN r.file = usersFile /\ r.out.reply = "premium_welcome"
            ELSE /\ check_user_joined_channels(r.file, user)
                 /\ r.out.reply \in {"token_active", "token_expired"}

\* C4 witness: a prompted viewer's record carries joined_channels = true, which
\* only the callback writes.
C4_Witness ==
    \E user \in Viewers :
        /\ user \in prompted
        /\ HasRecord(usersFile, user)
        /\ "joined_channels" \in UserRecord(usersFile, user).keys
        /\ check_user_joined_channels(usersFile, user)

\* The record of `user` is as one grant of `days` at t0 left it, and that grant
\* is the only one made.
OnlyGrantAt(user, t0, days) ==
    /\ grants = 1
    /\ HasRecord(usersFile, user)
    /\ UserRecord(usersFile, user).is_premium
    /\ UserRecord(usersFile, user).premium_expiry = isoformat(t0 + timedelta_days(days))
    /\ UserRecord(usersFile, user).token_expiry = PremiumTokenExpiry(t0)

\* C5 (as claimed): after a 7-day grant at T0 and no other grant, the user is
\* Premium at T0 + 1 day and NoAccess at T0 + 8 days: neither check_user_premium
\* nor check_user_token returns true then.
C5_SevenDayGrantScenario ==
    \A user \in UserIds :
        /\ OnlyGrantAt(user, now - timedelta_days(1), 7)
              => check_user_premium(usersFile, now, user)
        /\ OnlyGrantAt(user, now - timedelta_days(8), 7)
              => /\ ~check_user_premium(usersFile, now, user)
                 /\ ~check_user_token(usersFile, now, user)

\* Durations, in days, the grant rule is checked for.
CheckedDays == {1, 7, DaysPerMonth, PremiumTokenDays}

\* C6: set_user_premium_days stores old_expiry + days when the stored
\* premium_expiry is strictly later than now, and now + days otherwise (no
\* record, no expiry, null, or expired); two 7-day grants back to back on a
\* user without unexpired premium give now + 14 days.
C6_GrantExpiryRule ==
    \A user \in UserIds \cup {BackdoorId}, days \in CheckedDays :
        LET old == get_premium_expiry(usersFile, user)
            f1 == set_user_premium_days(usersFile, now, user, days)
            f2 == set_user_premium_days(f1, now, user, days)
            base == IF Truthy(old) /\ fromisoformat(old) > now
                    THEN fromisoformat(old) ELSE now
        IN  /\ UserRecord(f1, user).premium_expiry = <<base + days * HoursPerDay>>
            /\ UserRecord(f2, user).premium_expiry = <<base + 2 * days * HoursPerDay>>
            /\ UserRecord(f1, user).is_premium

\* C6 witness: two 7-day grants made at this instant on a viewer without
\* premium have left premium_expiry = now + 14 days.
C6_Witness ==
    \E user \in Viewers :
        /\ grants = 2
        /\ HasRecord(usersFile, user)
        /\ UserRecord(usersFile, user).token_expiry = PremiumTokenExpiry(now)
        /\ UserRecord(usersFile, user).premium_expiry = <<now + 14 * HoursPerDay>>

\* C7 (as claimed): in every reachable state, check_user_premium(u) implies
\* check_user_token(u).
C7_PremiumImpliesToken ==
    \A user \in UserIds :
        check_user_premium(usersFile, now, user) => check_user_token(usersFile, now, user)

\* is_premium == true implies premium_expiry is set, in every record of a file.
PremiumHasExpiry(file) ==
    LET users == read_json_file(file, UsersDefault).users
    IN  \A i \in 1..Len(users) :
            Get(users[i], "is_premium", FALSE) => Truthy(Get(users[i], "premium_expiry", None))

\* C8: every record of the users document with is_premium true has a non-null
\* premium_expiry, and each store operation applied to the document keeps it so.
C8_PremiumFlagHasExpiry ==
    /\ PremiumHasExpiry(usersFile)
    /\ \A user \in UserIds \cup {BackdoorId} :
        /\ PremiumHasExpiry(add_user(usersFile, user, UsernameOf(user)))
        /\ PremiumHasExpiry(set_user_token(usersFile, now, user, TokenHours))
        /\ PremiumHasExpiry(set_user_joined_channels(usersFile, user))
        /\ PremiumHasExpiry(remove_user_premium(usersFile, user).file)
        /\ \A n \in CheckedDays :
            /\ PremiumHasExpiry(set_user_premium(usersFile, now, user, n))
            /\ PremiumHasExpiry(set_user_premium_days(usersFile, now, user, n))

\* C8 witness: a viewer's record holds is_premium = true together with a
\* premium_expiry, after a grant.
C8_Witness ==
    \E user \in Viewers :
        /\ grants > 0
        /\ HasRecord(usersFile, user)
        /\ UserRecord(usersFile, user).is_premium
        /\ Truthy(UserRecord(usersFile, user).premium_expiry)

ElapsedHours == {0, 1, TokenHours - 1, TokenHours, TokenHours + 1, 2 * TokenHours}

\* C10: for every user, with a record or without, set_user_token with the
\* default 24 hours at the current instant makes check_user_token true at
\* every later instant less than 24 hours away and false from 24 hours on,
\* the document being left alone meanwhile; a /start token_<own id> of a
\* caller without premium is such a grant.
C10_TokenValidForDuration ==
    /\ \A user \in UserIds \cup {BackdoorId}, dt \in ElapsedHours :
        check_user_token(set_user_token(usersFile, now, user, TokenHours), now + dt, user)
            <=> dt < TokenHours
    /\ \A user \in UserIds, dt \in ElapsedHours :
        LET r == StartNow(user, [kind |-> "token", arg |-> Num(user)])
        IN  r.out.reply = "token_refreshed"
            => (check_user_token(r.file, now + dt, user) <=> dt < TokenHours)

\* C10 witness: a viewer's token, granted 24 hours ago by /start token_<id>,
\* has just run out.
C10_Witness ==
    \E user \in Viewers :
        /\ HasRecord(usersFile, user)
        /\ UserRecord(usersFile, user).keys \subseteq {"joined_channels"}
        /\ UserRecord(usersFile, user).token_expiry = isoformat(now)
        /\ ~check_user_token(usersFile, now, user)

\* Every identity a store operation may be asked about: the users of the bot
\* and one that never gets a record.
AnyUserIds == UserIds \cup {BackdoorId}

\* C11: check_user_token(u) is true iff a record for u exists, its
\* token_expiry is set and now is strictly before it; it is false for an
\* unknown user, for a null token_expiry and at now = token_expiry.  (It
\* returns a value and writes nothing: it has no file to leave.)
C11_TokenCheckExact ==
    \A user \in AnyUserIds :
        /\ check_user_token(usersFile, now, user)
            <=> /\ HasRecord(usersFile, user)
                /\ UserRecord(usersFile, user).token_expiry # None
                /\ now < fromisoformat(UserRecord(usersFile, user).token_expiry)
        /\ ~HasRecord(usersFile, user) => ~check_user_token(usersFile, now, user)
        /\ (HasRecord(usersFile, user) /\ UserRecord(usersFile, user).token_expiry = None)
              => ~check_user_token(usersFile, now, user)
        /\ (HasRecord(usersFile, user) /\ UserRecord(usersFile, user).token_expiry = isoformat(now))
              => ~check_user_token(usersFile, now, user)

\* C11 witness: one record has token_expiry = now, another has a null
\* token_expiry, a third identity has no record; the check is false for all
\* three, and was true for the first a day earlier.
C11_Witness ==
    \E u \in UserIds, v \in UserIds :
        /\ HasRecord(usersFile, u) /\ HasRecord(usersFile, v)
        /\ UserRecord(usersFile, u).token_expiry = isoformat(now)
        /\ UserRecord(usersFile, v).token_expiry = None
        /\ ~HasRecord(usersFile, BackdoorId)
        /\ check_user_token(usersFile, now - 1, u)
        /\ \A w \in {u, v, BackdoorId} : ~check_user_token(usersFile, now, w)

\* The user has never been granted premium: no record, or a record without
\* the is_premium and premium_expiry keys.
NeverPremium(file, user) ==
    \/ ~HasRecord(file, user)
    \/ UserRecord(file, user).keys \cap {"is_premium", "premium_expiry"} = {}

\* C12 (as claimed): remove_user_premium on a user with no premium record
\* (unknown, or a record never granted premium) returns false and leaves the
\* users document unchanged.
C12_RevokeWithoutPremiumIsNoop ==
    \A user \in AnyUserIds :
        NeverPremium(usersFile, user)
        => /\ ~remove_user_premium(usersFile, user).result
           /\ remove_user_premium(usersFile, user).file = usersFile

\* The user ids get_premium_users reports.
ListedIds(file, t) ==
    {get_premium_users(file, t)[i][1] : i \in 1..Len(get_premium_users(file, t))}

\* C13: remove_user_premium(u) on a holder of unexpired premium returns true
\* and leaves is_premium = false and premium_expiry = null in u's record and
\* every other record as it was, so that check_user_premium(u) is false and
\* u is not in get_premium_users right afterwards; for an unknown user it
\* returns false and writes nothing.
C13_RevokeClearsPremium ==
    \A user \in AnyUserIds :
        LET r == remove_user_premium(usersFile, user)
        IN  /\ PremiumInForce(usersFile, now, user)
               => /\ r.result
                  /\ user \in ListedIds(usersFile, now)
                  /\ HasRecord(r.file, user)
                  /\ {"is_premium", "premium_expiry"} \subseteq UserRecord(r.file, user).keys
                  /\ ~UserRecord(r.file, user).is_premium
                  /\ UserRecord(r.file, user).premium_expiry = None
                  /\ ~check_user_premium(r.file, now, user)
                  /\ user \notin ListedIds(r.file, now)
                  /\ \A other \in AnyUserIds \ {user} :
                        /\ HasRecord(r.file, other) <=> HasRecord(usersFile, other)
                        /\ HasRecord(usersFile, other)
                             => UserRecord(r.file, other) = UserRecord(usersFile, other)
            /\ ~HasRecord(usersFile, user) => (~r.result /\ r.file = usersFile)

\* C13 witness: a viewer granted premium has had it revoked by
\* /remove_premium: the flag and the expiry are cleared while the one-year
\* token of the grant is still in the record.
C13_Witness ==
    \E user \in Viewers :
        /\ grants > 0
        /\ HasRecord(usersFile, user)
        /\ {"is_premium", "premium_expiry"} \subseteq UserRecord(usersFile, user).keys
        /\ ~UserRecord(usersFile, user).is_premium
        /\ UserRecord(usersFile, user).premium_expiry = None
        /\ UserRecord(usersFile, user).token_expiry = PremiumTokenExpiry(now)
        /\ ~check_user_premium(usersFile, now, user)
        /\ ~HasRecord(usersFile, BackdoorId)

\* C14: in every reachable state, u is in get_premium_users() iff
\* check_user_premium(u) is true; each listed user is listed once, with the
\* stored username and the stored premium_expiry; nobody else is listed.
C14_ListIsPremiumHolders ==
    LET list == get_premium_users(usersFile, now)
    IN  /\ \A i \in 1..Len(list) : list[i][1] \in AnyUserIds
        /\ \A user \in AnyUserIds :
            LET at == {i \in 1..Len(list) : list[i][1] = user}
            IN  /\ (at # {}) <=> check_user_premium(usersFile, now, user)
                /\ Cardinality(at) <= 1
                /\ \A i \in at :
                    /\ list[i][2] = UserRecord(usersFile, user).username
                    /\ list[i][3] = fromisoformat(UserRecord(usersFile, user).premium_expiry)
                    /\ now < list[i][3]

\* C14 witness: the listing holds the viewer, a premium holder, and leaves
\* out the admin, whose record has no premium.
C14_Witness ==
    \E user \in Viewers, other \in ADMIN_USER_IDS :
        /\ HasRecord(usersFile, other)
        /\ PremiumInForce(usersFile, now, user)
        /\ get_premium_users(usersFile, now)
             = << <<user, UserRecord(usersFile, user).username,
                    fromisoformat(UserRecord(usersFile, user).premium_expiry)>> >>

\* The add_video calls that have written, in the order they wrote.
VideoLog == SelectSeq(log, LAMBDA e : e.call.name = "add_video")

\* C15: however the add_video coroutines interleave, the ids they return are
\* pairwise distinct and ascending in the order the calls wrote the document,
\* the document stores exactly those ids, once each, and next_id is greater
\* than every stored id.
C15_VideoIdsAscending ==
    LET doc == read_json_file(videosFile, VideosDefault)
    IN  /\ \A i \in 1..Len(VideoLog), j \in 1..Len(VideoLog) :
            i < j => VideoLog[i].result[1] < VideoLog[j].result[1]
        /\ Len(doc.videos) = Len(VideoLog)
        /\ \A i \in 1..Len(doc.videos) :
            /\ doc.videos[i].id = VideoLog[i].result[1]
            /\ doc.videos[i].id < doc.next_id
        /\ \A task \in Tasks :
            (tasks[task].call.name = "add_video" /\ tasks[task].pc \in {"written", "done"})
            => \E i \in 1..Len(doc.videos) : doc.videos[i].id = tasks[task].result[1]

\* C15 witness: three add_video coroutines were in flight together; two have
\* returned ids 1 and 2 and the third, which wrote id 3, is about to leave
\* the lock.
C15_Witness ==
    \E a \in Tasks, b \in Tasks, c \in Tasks :
        /\ \A task \in Tasks : tasks[task].call.name = "add_video"
        /\ tasks[a].pc = "done" /\ tasks[a].result = <<2>>
        /\ tasks[b].pc = "done" /\ tasks[b].result = <<1>>
        /\ tasks[c].pc = "written" /\ tasks[c].result = <<3>>
        /\ a < b
        /\ read_json_file(videosFile, VideosDefault).next_id = 4

\* The coroutines inside the exclusive section of a lock: past the entry of
\* `async with`, not yet out of it.
Inside(lock) ==
    {task \in Tasks : /\ tasks[task].pc \in {"locked", "read", "written"}
                      /\ LockOf(tasks[task].call) = lock}

\* The file the logged calls on a lock's document leave when they are run
\* one after the other, whole, in the order of the log, on the file init_db
\* made.
Serial(lock) ==
    LET run[n \in 0..Len(log)] ==
            IF n = 0 THEN write_json_file(DefaultOf(lock))
            ELSE IF LockOf(log[n].call) # lock THEN run[n - 1]
            ELSE IF Apply(log[n].call, run[n - 1], now).wrote
            THEN Apply(log[n].call, run[n - 1], now).file
            ELSE run[n - 1]
    IN  run[Len(log)]

\* A call of that name for that user has written.
Logged(name, user) ==
    \E i \in 1..Len(log) : log[i].call = [name |-> name, arg |-> user]

\* C16: at every moment at most one coroutine is inside the exclusive section
\* of a document, and no update is lost: each document is what the calls that
\* wrote it leave when run one at a time in the order they wrote, so the users
\* document shows the effect of every add_user, set_user_token,
\* set_user_joined_channels and set_user_premium_days that has written.
C16_OneWriterNoLostUpdate ==
    /\ \A lock \in LockNames :
        /\ Cardinality(Inside(lock)) <= 1
        /\ FileOf(lock) = Serial(lock)
    /\ \A user \in UserIds :
        /\ Logged("add_user", user) => HasRecord(usersFile, user)
        /\ Logged("set_user_token", user)
              => HasRecord(usersFile, user) /\ UserRecord(usersFile, user).token_expiry # None
        /\ Logged("set_user_joined_channels", user)
              => check_user_joined_channels(usersFile, user)
        /\ (Logged("set_user_premium_days", user) /\ ~Logged("remove_user_premium", user))
              => check_user_premium(usersFile, now, user)

\* C16 witness: add_user, set_user_token and set_user_joined_channels were
\* called together; the first has written and returned and its record is in
\* the document, the second is between its read and its write, the third
\* waits for the lock.
C16_Witness ==
    \E a \in Tasks, b \in Tasks, c \in Tasks, u \in UserIds, v \in UserIds :
        /\ tasks[a].pc = "done" /\ tasks[a].call = [name |-> "add_user", arg |-> u]
        /\ tasks[b].pc = "read" /\ tasks[b].call = [name |-> "set_user_token", arg |-> v]
        /\ tasks[c].pc = "waiting"
        /\ tasks[c].call = [name |-> "set_user_joined_channels", arg |-> v]
        /\ locks["users_lock"] = <<b, c>>
        /\ HasRecord(usersFile, u)

\* How many set_user_premium_days calls for the user have written since the
\* last remove_user_premium for that user wrote (or since the start).
GrantsStanding(user) ==
    LET count[n \in 0..Len(log)] ==
            IF n = 0 THEN 0
            ELSE IF log[n].call = [name |-> "remove_user_premium", arg |-> user] THEN 0
            ELSE IF log[n].call = [name |-> "set_user_premium_days", arg |-> user]
            THEN count[n - 1] + 1
            ELSE count[n - 1]
    IN  count[Len(log)]

\* C17: grants for one user that are in flight together are serialized and
\* every duration is applied: after k grants of 7 days on a user without
\* premium, premium_expiry is 7 * k days after the base time of the first,
\* so two concurrent grants leave 14 days, never 7.
C17_ConcurrentGrantsAdd ==
    \A user \in UserIds :
        GrantsStanding(user) > 0
        => /\ HasRecord(usersFile, user)
           /\ UserRecord(usersFile, user).is_premium
           /\ UserRecord(usersFile, user).premium_expiry
                = isoformat(now + timedelta_days(GrantDays * GrantsStanding(user)))

\* C17 witness: two grants for the same viewer were called together; one has
\* returned, the other has just written, and premium_expiry is 14 days on.
C17_Witness ==
    \E a \in Tasks, b \in Tasks, user \in Viewers :
        /\ tasks[a].call = [name |-> "set_user_premium_days", arg |-> user]
        /\ tasks[b].call = tasks[a].call
        /\ tasks[a].pc = "done" /\ tasks[b].pc = "written"
        /\ Len(log) = 2
        /\ UserRecord(usersFile, user).premium_expiry = isoformat(now + timedelta_days(14))

\* The lock queues a coroutine is in.
QueuesOf(task) ==
    {lock \in LockNames : \E i \in 1..Len(locks[lock]) : locks[lock][i] = task}

\* C18: every mutating store coroutine asks for exactly one lock, the one of
\* its document, is never in line for a second one, holds it until it has
\* written, and is out of every queue once it has returned; and under fair
\* scheduling every coroutine that has been called returns.
C18_NoDeadlockNoCancellation ==
    /\ [](\A task \in Tasks :
            /\ tasks[task].pc \in {"waiting", "locked", "read", "written"}
                  => QueuesOf(task) = {LockOf(tasks[task].call)}
            /\ tasks[task].pc \in {"locked", "read", "written"}
                  => Head(locks[LockOf(tasks[task].call)]) = task
            /\ tasks[task].pc \in {"idle", "done"} => QueuesOf(task) = {})
    /\ \A task \in Tasks : (tasks[task].pc = "waiting") ~> (tasks[task].pc = "done")
    /\ \A task \in Tasks : [](tasks[task].pc = "done" => [](tasks[task].pc = "done"))

\* C18 witness: one coroutine is inside users_lock, a second waits for the
\* same lock behind it, and a third is inside videos_lock at the same time.
C18_Witness ==
    \E a \in Tasks, b \in Tasks, c \in Tasks :
        /\ locks["users_lock"] = <<a, b>>
        /\ locks["videos_lock"] = <<c>>
        /\ tasks[a].pc = "read" /\ tasks[b].pc = "waiting" /\ tasks[c].pc = "read"

\* The file is absent or its content does not parse.
Unreadable(file) == ~file.exists \/ ~file.valid

\* C19 (as claimed): reading a document that does not exist or fails to parse
\* gives the same default shape as reading the file init_db creates, and
\* every check_* and get_* function then returns its absent result.
C19_UnreadableReadsAsDefault ==
    /\ Unreadable(usersFile)
        => /\ read_json_file(usersFile, UsersDefault)
                = read_json_file(write_json_file(UsersDefault), UsersDefault)
           /\ get_premium_users(usersFile, now) = <<>>
           /\ \A user \in AnyUserIds :
                /\ ~check_user_token(usersFile, now, user)
                /\ ~check_user_premium(usersFile, now, user)
                /\ ~check_user_joined_channels(usersFile, user)
                /\ get_premium_expiry(usersFile, user) = None
    /\ Unreadable(videosFile)
        => /\ read_json_file(videosFile, VideosDefault)
                = read_json_file(write_json_file(VideosDefault), VideosDefault)
           /\ \A n \in VideoIds : get_video_by_id(videosFile, n) = None
    /\ Unreadable(channelsFile)
        => /\ read_json_file(channelsFile, ChannelsDefault)
                = read_json_file(write_json_file(ChannelsDefault), ChannelsDefault)
           /\ get_channels(channelsFile) = <<>>

\* How many records of the users file carry the id.
RecordCount(file, user) ==
    Cardinality({i \in 1..Len(read_json_file(file, UsersDefault).users) :
                    read_json_file(file, UsersDefault).users[i].user_id = user})

\* The store functions that create a record when none matches.
CreatingCalls ==
    {"add_user", "set_user_token", "set_user_joined_channels", "set_user_premium_days"}

\* C20: however the store coroutines interleave, the users document holds
\* exactly one record for every id that add_user, set_user_token,
\* set_user_joined_channels or a premium grant has written for, none for any
\* other id, and a further store call of any kind neither removes nor
\* duplicates a record (remove_user_premium only clears flags).
C20_OneRecordPerUser ==
    \A user \in AnyUserIds :
        /\ RecordCount(usersFile, user)
             = IF \E name \in CreatingCalls : Logged(name, user) THEN 1 ELSE 0
        /\ \A other \in AnyUserIds :
            LET created == {add_user(usersFile, other, UsernameOf(other)),
                            set_user_token(usersFile, now, other, TokenHours),
                            set_user_joined_channels(usersFile, other),
                            set_user_premium(usersFile, now, other, 1),
                            set_user_premium_days(usersFile, now, other, GrantDays)}
            IN  /\ \A f \in created :
                    RecordCount(f, user) = IF other = user THEN 1
                                           ELSE RecordCount(usersFile, user)
                /\ RecordCount(remove_user_premium(usersFile, other).file, user)
                     = RecordCount(usersFile, user)

\* C20 witness: a viewer was granted premium and had it removed while the
\* admin's add_user ran; both records are there, one each.
C20_Witness ==
    \E user \in Viewers, other \in ADMIN_USER_IDS :
        /\ \A task \in Tasks : tasks[task].pc = "done"
        /\ Logged("set_user_premium_days", user)
        /\ Logged("remove_user_premium", user)
        /\ Logged("add_user", other)
        /\ log[3].call.name = "remove_user_premium" /\ log[3].result = <<TRUE>>
        /\ RecordCount(usersFile, user) = 1
        /\ RecordCount(usersFile, other) = 1
        /\ ~UserRecord(usersFile, user).is_premium

----------------------------------------------------------------------------
(* Upserts of the users store.                                             *)

UsersOf(file) == read_json_file(file, UsersDefault).users

\* `after` holds exactly one record for `user`: the one `before` held, at its
\* place, or one appended when `before` held none; every other record is as
\* it was.
Upserted(before, after, user) ==
    /\ RecordCount(after, user) = 1
    /\ Len(UsersOf(after)) =
          Len(UsersOf(before)) + (IF HasRecord(before, user) THEN 0 ELSE 1)
    /\ \A i \in 1..Len(UsersOf(before)) :
          /\ UsersOf(after)[i].user_id = UsersOf(before)[i].user_id
          /\ UsersOf(after)[i].username = UsersOf(before)[i].username
          /\ UsersOf(before)[i].user_id # user => UsersOf(after)[i] = UsersOf(before)[i]

\* C21: set_user_token, set_user_premium_days (and set_user_premium) and
\* set_user_joined_channels, called for an id without record, append one
\* record carrying the granted field -- a new premium record has is_premium
\* true, premium_expiry = now + days and token_expiry = now + 365 days; called
\* for an id with a record they change that record in place and add none.
C21_GrantsUpsert ==
    \A user \in AnyUserIds :
        /\ LET f == set_user_token(usersFile, now, user, TokenHours)
           IN  /\ Upserted(usersFile, f, user)
               /\ UserRecord(f, user).token_expiry = isoformat(now + TokenHours)
               /\ UserRecord(f, user).is_active
        /\ LET f == set_user_joined_channels(usersFile, user)
           IN  /\ Upserted(usersFile, f, user)
               /\ Get(UserRecord(f, user), "joined_channels", FALSE)
               /\ ~HasRecord(usersFile, user) =>
                     /\ UserRecord(f, user).token_expiry = None
                     /\ ~UserRecord(f, user).is_active
        /\ \A days \in CheckedDays :
              LET f == set_user_premium_days(usersFile, now, user, days)
              IN  /\ Upserted(usersFile, f, user)
                  /\ Get(UserRecord(f, user), "is_premium", FALSE)
                  /\ UserRecord(f, user).token_expiry =
                        isoformat(now + PremiumTokenDays * HoursPerDay)
                  /\ ~HasRecord(usersFile, user) =>
                        /\ UserRecord(f, user).premium_expiry =
                              isoformat(now + days * HoursPerDay)
                        /\ UserRecord(f, user).username = None
        /\ LET f == set_user_premium(usersFile, now, user, 1)
           IN  /\ Upserted(usersFile, f, user)
               /\ Get(UserRecord(f, user), "is_premium", FALSE)

\* A record that a premium grant created stands in the file, beside a record
\* that add_user created: the user never sent /start (no username), and a
\* further grant to either adds no record.
C21_Witness ==
    \E user \in Viewers, other \in UserIds :
        /\ HasRecord(usersFile, user)
        /\ HasRecord(usersFile, other)
        /\ other # user
        /\ UserRecord(usersFile, user).username = None
        /\ UserRecord(usersFile, other).username # None
        /\ Get(UserRecord(usersFile, user), "is_premium", FALSE)
        /\ UserRecord(usersFile, user).token_expiry = PremiumTokenExpiry(now)
        /\ Len(UsersOf(set_user_token(usersFile, now, user, TokenHours))) = 2

----------------------------------------------------------------------------
(* Upsert of the channels store.                                           *)

ChannelsOf(file) == read_json_file(file, ChannelsDefault).channels

\* The titles a channel can carry when it registers or registers again.
ChannelTitles == {ChannelTitle, <<"renamed">>}

\* A registered id and one that is not.
AnyChannelIds == ChannelIds \cup {-200}

\* The callers of add_channel: a channel post (0) and an admin's command.
Registrants == {0} \cup ADMIN_USER_IDS

ChannelCount(file, channel_id) ==
    Cardinality({i \in 1..Len(ChannelsOf(file)) :
                    ChannelsOf(file)[i].channel_id = channel_id})

\* C22: add_channel with an id already stored changes that record's title
\* and nothing else -- added_by and added_on stay, no record is added; with
\* a new id it appends one record.  Whatever add_channel calls ran, one
\* after another or in flight together for the same unregistered channel,
\* no two records share a channel id.
C22_ChannelUpsert ==
    /\ \A channel_id \in AnyChannelIds : ChannelCount(channelsFile, channel_id) <= 1
    /\ \A channel_id \in AnyChannelIds, title \in ChannelTitles,
          added_by \in Registrants, t \in {now, now + HoursPerDay} :
          LET before == ChannelsOf(channelsFile)
              after == ChannelsOf(add_channel(channelsFile, t, channel_id, title, added_by))
              i == FirstIndex(before, "channel_id", channel_id)
          IN  IF i # 0
              THEN /\ Len(after) = Len(before)
                   /\ after[i].title = title
                   /\ after[i].added_by = before[i].added_by
                   /\ after[i].added_on = before[i].added_on
                   /\ after[i].channel_id = channel_id
                   /\ \A j \in 1..Len(before) : j # i => after[j] = before[j]
              ELSE /\ Len(after) = Len(before) + 1
                   /\ after[Len(after)] = [channel_id |-> channel_id, title |-> title,
                                           added_by |-> added_by, added_on |-> isoformat(t)]
                   /\ \A j \in 1..Len(before) : after[j] = before[j]

\* Three add_channel calls for one channel are in flight together: one has
\* returned, one has written on top of it and still holds the lock, one
\* waits; the file holds one record for the channel.
C22_Witness ==
    \E a, b, c \in Tasks, channel_id \in ChannelIds :
        /\ a # b /\ b # c /\ a # c
        /\ \A task \in {a, b, c} :
              tasks[task].call = [name |-> "add_channel", arg |-> channel_id]
        /\ tasks[a].pc = "done"
        /\ tasks[b].pc = "written"
        /\ tasks[c].pc = "waiting"
        /\ Len(log) = 2
        /\ ChannelCount(channelsFile, channel_id) = 1
        /\ Len(ChannelsOf(channelsFile)) = 1

----------------------------------------------------------------------------
(* The deep-link parameters of /start.                                     *)

\* token_<w> for every <w> the model draws: a word (or nothing) and numbers.
TokenParams == {param \in StartParams : param.kind = "token"}

\* token_<w> names `user`.
Matches(param, user) == param.arg.int /\ param.arg.n = user

\* The token_expiry of every identity, or "none" without record.
TokenExpiries(file) ==
    [user \in AnyUserIds |->
        IF HasRecord(file, user) THEN UserRecord(file, user).token_expiry ELSE "none"]

\* The reply the normal welcome flow owes `user` in the current state.
NormalReply(user) ==
    IF ~check_user_joined_channels(usersFile, user) THEN "membership_prompt"
    ELSE IF check_user_token(usersFile, now, user) THEN "token_active"
    ELSE "token_expired"

\* The users file after the add_user every /start begins with.
AfterAddUser(user) == add_user(usersFile, user, UsernameOf(user))

\* C23 (as claimed): a /start token_<id> whose <id> is the caller's grants
\* the caller a 24-hour token; any other token_<w> ends in the normal
\* welcome flow.
C23_TokenLinkAlways ==
    \A user \in UserIds, param \in TokenParams :
        LET r == StartNow(user, param)
        IN  IF Matches(param, user)
            THEN UserRecord(r.file, user).token_expiry = isoformat(now + TokenHours)
            ELSE r.out.reply = NormalReply(user)

\* C23 (amended): for a caller without unexpired premium, a /start token_<w>
\* with <w> not the caller's id -- another id, a word, nothing -- changes no
\* token_expiry, raises nothing and ends as a /start without parameter does:
\* membership prompt, token-active welcome or token-expired prompt; with <w>
\* the caller's id it sets the caller's token_expiry to now + 24 hours and
\* leaves every other record as it was.  A caller with unexpired premium gets
\* the premium welcome and no token_expiry changes, match or not.
C23_TokenLinkOwnIdOnly ==
    \A user \in UserIds, param \in TokenParams :
        LET r == StartNow(user, param)
        IN  /\ r.out.reply # "unhandled_error"
            /\ r.out.video = None
            /\ \A other \in AnyUserIds \ {user} :
                  TokenExpiries(r.file)[other] = TokenExpiries(usersFile)[other]
            /\ IF PremiumInForce(usersFile, now, user)
               THEN /\ r.out.reply = "premium_welcome"
                    /\ r.file = AfterAddUser(user)
                    /\ TokenExpiries(r.file)[user] = TokenExpiries(usersFile)[user]
               ELSE IF Matches(param, user)
               THEN /\ r.out.reply = "token_refreshed"
                    /\ r.file = set_user_token(AfterAddUser(user), now, user, TokenHours)
                    /\ TokenExpiries(r.file)[user] = isoformat(now + TokenHours)
                    /\ RecordCount(r.file, user) = 1
               ELSE /\ r.out.reply = NormalReply(user)
                    /\ r.out.reply = StartNow(user, NoParam).out.reply
                    /\ r.file = AfterAddUser(user)
                    /\ HasRecord(usersFile, user) =>
                          TokenExpiries(r.file)[user] = TokenExpiries(usersFile)[user]

\* A joined viewer without premium whose token has run out, beside another
\* user's record: token_<own id> refreshes the token, token_<other id> and
\* token_<word> end in the token-expired prompt.
C23_Witness ==
    \E user \in Viewers, other \in UserIds \ Viewers :
        /\ HasRecord(usersFile, user)
        /\ HasRecord(usersFile, other)
        /\ ~PremiumInForce(usersFile, now, user)
        /\ check_user_joined_channels(usersFile, user)
        /\ Truthy(UserRecord(usersFile, user).token_expiry)
        /\ ~check_user_token(usersFile, now, user)
        /\ StartNow(user, [kind |-> "token", arg |-> Num(user)]).out.reply = "token_refreshed"
        /\ StartNow(user, [kind |-> "token", arg |-> Num(other)]).out.reply = "token_expired"
        /\ StartNow(user, [kind |-> "token", arg |-> Word]).out.reply = "token_expired"

\* C24 (as claimed): a /start video_<id> whose id names no stored video, from
\* a caller who passes the gate -- joined_channels true, and a valid token or
\* unexpired premium -- is answered "Video not found.", which is neither the
\* token-expired prompt nor the membership prompt, and carries no video.
C24_UnknownVideoNotFound ==
    \A user \in UserIds, n \in VideoIds :
        ( /\ check_user_joined_channels(usersFile, user)
          /\ check_user_token(usersFile, now, user) \/ PremiumInForce(usersFile, now, user)
          /\ ~Truthy(get_video_by_id(videosFile, n)) )
        => /\ StartNow(user, VideoParam(n)).out.reply = "video_not_found"
           /\ StartNow(user, VideoParam(n)).out.video = None

\* C25 (as claimed): every /start, whatever its deep-link parameter --
\* video_<x> and token_<x> with <x> empty or not an integer included -- ends
\* with a reply to the caller; none ends in an exception that leaves the
\* handler.
C25_NoStartIsFatal ==
    \A user \in UserIds, param \in StartParams :
        StartNow(user, param).out.reply # "unhandled_error"

----------------------------------------------------------------------------
(* The premium commands and panel of admin.py.                             *)

\* /add_premium arguments that name no grant: a user id that is no number, a
\* duration that is no number, is zero or is negative, in months or in days.
RejectedPremiumArgs ==
    {<<Word>>, <<Word, Num(7)>>, <<Word, Num(7), DaysWord>>}
    \cup {<<Num(u), b>> : u \in UserIds, b \in {Word, Num(0), Num(-1)}}
    \cup {<<Num(u), b, c>> : u \in UserIds, b \in {Word, Num(0), Num(-1)},
                             c \in {Word, DaysWord}}

\* The replies that report a rejected input.
Rejections == {"invalid_user_id", "invalid_duration", "duration_not_positive"}

\* Every set_user_premium_days call of a run was made with days > 0.
PositiveDays(calls) == \A i \in 1..Len(calls) : calls[i][2] > 0

\* C26: a premium grant by an admin whose duration is zero, negative or no
\* number, or whose user id is no number -- typed as /add_premium arguments
\* or as the message awaited in WAITING_FOR_USER_ID, WAITING_FOR_MONTHS or
\* WAITING_FOR_DURATION_TYPE -- is answered with the matching rejection and
\* leaves users.json (and the panel's session) as it was; no handler calls
\* set_user_premium_days with days <= 0.
C26_BadGrantRejected ==
    /\ \A caller \in ADMIN_USER_IDS :
          /\ \A args \in RejectedPremiumArgs :
                LET r == add_premium_command(usersFile, now, caller, args)
                IN  /\ r.file = usersFile
                    /\ r.out.reply \in Rejections
                    /\ r.out.reply = "invalid_user_id" <=> ~args[1].int
          /\ \A args \in AddPremiumArgs \cup RejectedPremiumArgs :
                add_premium_command(usersFile, now, caller, args).file # usersFile
                => AddPremiumDays(args) > 0
    /\ \A caller \in UserIds, text \in Texts :
          LET session == user_data[caller]
              r == admin_message_handler(usersFile, now, caller, session, text)
              bad == IF session.admin_state = WAITING_FOR_USER_ID THEN ~text.int
                     ELSE IF session.admin_state \in {WAITING_FOR_MONTHS,
                                                      WAITING_FOR_DURATION_TYPE}
                     THEN ~text.int \/ text.n <= 0
                     ELSE FALSE
          IN  /\ PositiveDays(r.out.trace)
              /\ r.file # usersFile => r.out.trace # <<>>
              /\ (admin_check(caller) /\ bad)
                 => /\ r.file = usersFile
                    /\ r.session = session
                    /\ r.out.reply \in Rejections
                    /\ r.out.reply = "invalid_user_id"
                          <=> session.admin_state = WAITING_FOR_USER_ID
                    /\ r.out.reply = "invalid_duration"
                          <=> (session.admin_state # WAITING_FOR_USER_ID /\ ~text.int)
    /\ \A caller \in UserIds, data \in DurationButtons :
          LET r == premium_duration_callback(usersFile, now, caller, user_data[caller], data)
          IN  /\ PositiveDays(r.out.trace)
              /\ r.file # usersFile => r.out.trace # <<>>

\* An admin who granted a viewer premium through the panel has entered the
\* viewer's id again and is asked for the months: 0 and -1 are rejected as
\* not positive, a word as no number, 1 is granted as 30 days.
C26_Witness ==
    \E caller \in ADMIN_USER_IDS, user \in Viewers :
        LET try(text) == admin_message_handler(usersFile, now, caller, user_data[caller], text)
        IN  /\ grants = 1
            /\ PremiumInForce(usersFile, now, user)
            /\ user_data[caller].admin_state = WAITING_FOR_MONTHS
            /\ user_data[caller].premium_user_id = <<user>>
            /\ try(Num(0)).out.reply = "duration_not_positive"
            /\ try(Num(-1)).out.reply = "duration_not_positive"
            /\ try(Word).out.reply = "invalid_duration"
            /\ try(Num(1)).out.trace = <<<<user, DaysPerMonth>>>>

\* The month counts compared.
CheckedMonths == {1, 2, 3, 12}

\* The panel's session after an admin has entered `user` as the user id.
AwaitingMonths(user) ==
    [EmptySession EXCEPT !.admin_state = WAITING_FOR_MONTHS, !.premium_user_id = <<user>>]

\* C27: set_user_premium(u, m) leaves the users document that
\* set_user_premium_days(u, 30 * m) leaves, from the same document at the
\* same instant; so do the admin paths that take months: /add_premium <u> <m>
\* and the month count typed into the panel.
C27_MonthIsThirtyDays ==
    \A user \in AnyUserIds, months \in CheckedMonths :
        LET byDays == set_user_premium_days(usersFile, now, user, 30 * months)
        IN  /\ set_user_premium(usersFile, now, user, months) = byDays
            /\ \A caller \in ADMIN_USER_IDS :
                  /\ add_premium_command(usersFile, now, caller,
                                         <<Num(user), Num(months)>>).file = byDays
                  /\ admin_message_handler(usersFile, now, caller, AwaitingMonths(user),
                                           Num(months)).file = byDays
                  /\ months = 1 =>
                        add_premium_command(usersFile, now, caller, <<Num(user)>>).file = byDays

\* A viewer holds premium granted in months some time ago and still in
\* force: one more month moves the expiry 30 days on from where it stands.
C27_Witness ==
    \E user \in Viewers :
        /\ now > 0
        /\ PremiumInForce(usersFile, now, user)
        /\ UserRecord(usersFile, user).premium_expiry = isoformat(7 * DaysPerMonth * HoursPerDay)
        /\ UserRecord(set_user_premium(usersFile, now, user, 1), user).premium_expiry
              = isoformat(8 * DaysPerMonth * HoursPerDay)

\* C28 (as claimed): when a user whom /start shows the token-expired prompt
\* presses its "Refresh Token" button, then whatever the short-link provider
\* answers, create_token_url returns a link -- the direct link
\* https://t.me/<bot>?start=token_<user_id> unless the provider gave a short
\* one -- after its one request, never an empty value, and
\* refresh_token_callback never sends its error text.
C28_TokenLinkNeverEmpty ==
    \A user \in UserIds, outcome \in ProviderOutcomes :
        StartNow(user, NoParam).out.reply = "token_expired" =>
        /\ Truthy(create_token_url(user, outcome))
        /\ (outcome.raised \/ outcome.status # 200 \/ ~outcome.success)
           => create_token_url(user, outcome) = TokenLink(user)
        /\ refresh_token_callback(user, outcome).reply # "token_link_error"

\* C29 (as claimed): admin_check, in bot.py and in admin.py, is true exactly
\* for the ids in ADMIN_USER_IDS, so a caller outside the list is granted
\* nothing and revokes nothing.
C29_AdminListSoleAuthority ==
    \A caller \in AnyUserIds :
        /\ caller \notin ADMIN_USER_IDS =>
              \A user \in Viewers :
                 /\ add_premium_command(usersFile, now, caller,
                                        <<Num(user), Num(7), DaysWord>>).file = usersFile
                 /\ remove_premium_command(usersFile, caller, <<Num(user)>>).file = usersFile
        /\ admin_check(caller) <=> caller \in ADMIN_USER_IDS
        /\ bot_admin_check(caller) <=> caller \in ADMIN_USER_IDS

\* C30: a /start that carries no token_<id> naming the caller leaves
\* token_expiry, is_premium, premium_expiry and joined_channels of every
\* record as they were, at whatever stage it ends -- premium welcome,
\* membership prompt, token-expired prompt, welcome, video, not found, or the
\* exception of a malformed video id; the one thing it writes is add_user's:
\* the caller's username, in the caller's record or in a new record without
\* token, premium or membership.
C30_StartWritesUsernameOnly ==
    \A user \in UserIds, param \in StartParams :
        ~(param.kind = "token" /\ Matches(param, user)) =>
            LET before == UsersOf(usersFile)
                after == UsersOf(StartNow(user, param).file)
            IN  /\ Len(after) = Len(before) + (IF HasRecord(usersFile, user) THEN 0 ELSE 1)
                /\ \A i \in 1..Len(before) :
                      /\ after[i].token_expiry = before[i].token_expiry
                      /\ after[i].is_premium = before[i].is_premium
                      /\ after[i].premium_expiry = before[i].premium_expiry
                      /\ after[i].joined_channels = before[i].joined_channels
                      /\ after[i].keys = before[i].keys
                      /\ after[i] = [before[i] EXCEPT !.username =
                                        IF before[i].user_id = user THEN UsernameOf(user)
                                        ELSE @]
                /\ ~HasRecord(usersFile, user) =>
                      after[Len(after)] = NewUser(user, UsernameOf(user), None, FALSE)

\* A joined viewer with a valid token, beside a second record: /start is
\* answered with the welcome, /start video_<id> with the video or "not
\* found", /start token_<other id> with the welcome, and the file each
\* leaves is the file as it stands.
C30_Witness ==
    \E user \in Viewers, other \in UserIds \ Viewers :
        /\ HasRecord(usersFile, user)
        /\ HasRecord(usersFile, other)
        /\ UserRecord(usersFile, user).username = UsernameOf(user)
        /\ check_user_joined_channels(usersFile, user)
        /\ check_user_token(usersFile, now, user)
        /\ StartNow(user, NoParam).out.reply = "token_active"
        /\ StartNow(user, [kind |-> "token", arg |-> Num(other)]).out.reply = "token_active"
        /\ StartNow(user, VideoParam(1)).out.reply = "video"
        /\ \A param \in StartParams :
              ~(param.kind = "token" /\ Matches(param, user))
              => StartNow(user, param).file = usersFile

----------------------------------------------------------------------------
(* One document per store call.                                            *)

\* The document init_db leaves for a lock.
InitialFile(lock) == write_json_file(DefaultOf(lock))

\* The document of `lock` after the first n logged calls, the calls on the
\* other two documents left out.
RECURSIVE Replay(_, _)
Replay(lock, n) ==
    IF n = 0 THEN InitialFile(lock)
    ELSE IF LockOf(log[n].call) # lock THEN Replay(lock, n - 1)
    ELSE LET r == Apply(log[n].call, Replay(lock, n - 1), now)
         IN  IF r.wrote THEN r.file ELSE Replay(lock, n - 1)

\* C31: a store call reads and writes the one document whose lock it takes.
\* Each of the three documents is what the calls on that document, in the
\* order they wrote, make of the initial document -- the calls on the other
\* two documents, whenever they ran in between, count for nothing; so a user
\* call and a video call in flight together end, in either order, with the
\* same three documents.
C31_OneDocumentPerCall ==
    /\ usersFile = Replay("users_lock", Len(log))
    /\ videosFile = Replay("videos_lock", Len(log))
    /\ channelsFile = Replay("channels_lock", Len(log))

\* A token grant and add_video were in flight together: the grant took its
\* lock and read first, add_video wrote first; a channel was registered
\* before both.
C31_Witness ==
    \E a, b, c \in Tasks :
        /\ Len(log) = 3
        /\ log[1].task = c /\ log[1].call.name = "add_channel"
        /\ log[2].task = b /\ log[2].call.name = "add_video"
        /\ log[3].task = a /\ log[3].call.name = "set_user_token"
        /\ tasks[a].pc = "written"
        /\ tasks[b].pc = "done"
        /\ Len(UsersOf(usersFile)) = 1
        /\ Len(read_json_file(videosFile, VideosDefault).videos) = 1
        /\ Len(ChannelsOf(channelsFile)) = 1

----------------------------------------------------------------------------
(* What the handlers leave alone.                                          *)

\* C32: joined_channels is monotone.  Once check_user_joined_channels is
\* true for a user, no step -- a /start with its add_user or token grant, a
\* premium grant, a premium revocation, a further "Try Again", the clock --
\* makes it false again.
C32_JoinedIsMonotone ==
    [][\A user \in AnyUserIds :
          check_user_joined_channels(usersFile, user)
          => check_user_joined_channels(usersFile', user)]_vars

\* A viewer's flag is still set after the operations that came later: a
\* premium grant and its revocation, a /start, a second "Try Again", and the
\* passing of time.
C32_Witness ==
    \E user \in Viewers :
        /\ now > 0
        /\ check_user_joined_channels(usersFile, user)
        /\ UserRecord(usersFile, user).username = UsernameOf(user)
        /\ "is_premium" \in UserRecord(usersFile, user).keys
        /\ ~UserRecord(usersFile, user).is_premium
        /\ Truthy(UserRecord(usersFile, user).token_expiry)
        /\ check_user_joined_channels(ConfirmNow(user, TRUE).file, user)
        /\ check_user_joined_channels(remove_user_premium(usersFile, user).file, user)

\* C33: remove_user_premium changes is_premium and premium_expiry of the
\* record it matches and nothing else: token_expiry, joined_channels,
\* username and is_active of that record and every other record stay.  So
\* check_user_token answers after the revocation as before it, at once and
\* at every later instant: a user revoked while the token of the premium
\* grant (now + 365 days at the grant) runs is let through by the token
\* check of /start video_<id> until that token ends.
C33_RevokeKeepsToken ==
    \A user \in AnyUserIds :
        HasRecord(usersFile, user) =>
            LET r == remove_user_premium(usersFile, user)
                before == UserRecord(usersFile, user)
                after == UserRecord(r.file, user)
            IN  /\ after.token_expiry = before.token_expiry
                /\ after.joined_channels = before.joined_channels
                /\ after.username = before.username
                /\ after.is_active = before.is_active
                /\ after = [before EXCEPT !.is_premium = FALSE, !.premium_expiry = None,
                                          !.keys = @ \cup {"premium_expiry", "is_premium"}]
                /\ Len(UsersOf(r.file)) = Len(UsersOf(usersFile))
                /\ \A i \in 1..Len(UsersOf(usersFile)) :
                      UsersOf(usersFile)[i].user_id # user
                      => UsersOf(r.file)[i] = UsersOf(usersFile)[i]
                /\ \A hours \in ElapsedHours \cup {PremiumTokenDays * HoursPerDay} :
                      /\ check_user_token(r.file, now + hours, user)
                            = check_user_token(usersFile, now + hours, user)
                      /\ Truthy(before.token_expiry) =>
                            (check_user_token(r.file, now + hours, user)
                                <=> now + hours < fromisoformat(before.token_expiry))
                /\ \A n \in VideoIds :
                      ( /\ check_user_joined_channels(usersFile, user)
                        /\ check_user_token(usersFile, now, user)
                        /\ Truthy(get_video_by_id(videosFile, n)) )
                      => start_command(r.file, videosFile, now, user, UsernameOf(user),
                                       VideoParam(n)).out.reply = "video"

\* A joined viewer holds unexpired premium and the 365-day token its grant
\* wrote, some time after the grant; a video is stored.  Revoked now, the
\* viewer is sent the video on the strength of that token.
C33_Witness ==
    \E user \in Viewers :
        LET r == remove_user_premium(usersFile, user)
        IN  /\ now > 0
            /\ PremiumInForce(usersFile, now, user)
            /\ check_user_joined_channels(usersFile, user)
            /\ UserRecord(usersFile, user).token_expiry = PremiumTokenExpiry(0)
            /\ r.result
            /\ ~check_user_premium(r.file, now, user)
            /\ check_user_token(r.file, now, user)
            /\ start_command(r.file, videosFile, now, user, UsernameOf(user),
                             VideoParam(1)).out.reply = "video"

\* C34: set_user_token writes token_expiry = now + hours over whatever is
\* stored, a later expiry included (the 365 days a premium grant leaves): it
\* never keeps the later of the two, so the token refresh of /start
\* token_<own id> can shorten the validity of a caller whose premium has
\* ended or was revoked.
C34_TokenGrantOverwrites ==
    \A user \in AnyUserIds :
        /\ \A hours \in {1, TokenHours} :
              UserRecord(set_user_token(usersFile, now, user, hours), user).token_expiry
                 = isoformat(now + hours)
        /\ (HasRecord(usersFile, user) /\ ~PremiumInForce(usersFile, now, user)
            /\ user \in UserIds)
           => LET r == StartNow(user, [kind |-> "token", arg |-> Num(user)])
              IN  /\ r.out.reply = "token_refreshed"
                  /\ UserRecord(r.file, user).token_expiry = isoformat(now + TokenHours)
                  /\ \A hours \in ElapsedHours :
                        check_user_token(r.file, now + hours, user) <=> hours < TokenHours

\* A viewer whose premium has been revoked or has run out still holds the
\* long token of the grant; /start token_<own id> cuts it to 24 hours.
C34_Witness ==
    \E user \in Viewers :
        LET r == StartNow(user, [kind |-> "token", arg |-> Num(user)])
        IN  /\ HasRecord(usersFile, user)
            /\ ~PremiumInForce(usersFile, now, user)
            /\ Truthy(UserRecord(usersFile, user).token_expiry)
            /\ fromisoformat(UserRecord(usersFile, user).token_expiry) > now + TokenHours
            /\ check_user_token(usersFile, now + TokenHours, user)
            /\ r.out.reply = "token_refreshed"
            /\ ~check_user_token(r.file, now + TokenHours, user)

----------------------------------------------------------------------------
(* The premium panel's session.                                            *)

\* (user_id, is_premium, premium_expiry) of every record, in document order.
PremiumFields(file) ==
    [i \in 1..Len(UsersOf(file)) |->
        <<UsersOf(file)[i].user_id, UsersOf(file)[i].is_premium,
          UsersOf(file)[i].premium_expiry,
          UsersOf(file)[i].keys \cap {"is_premium", "premium_expiry"}>>]

\* C35: set_user_premium_days and remove_user_premium run only for a caller
\* who passed admin_check.  The three panel callbacks check nothing, but a
\* caller who fails admin_check never has a premium_user_id in user_data,
\* and whatever such a caller sends -- /add_premium, /remove_premium, a
\* panel button, a duration button, a text message -- calls neither function
\* and leaves is_premium and premium_expiry of every record as they were.
C35_PremiumOnlyByAdmins ==
    \A caller \in UserIds :
        ~admin_check(caller) =>
            LET session == user_data[caller]
                unchanged(r) == /\ r.file = usersFile
                                /\ PremiumFields(r.file) = PremiumFields(usersFile)
            IN  /\ session.premium_user_id = None
                /\ \A args \in AddPremiumArgs \cup RejectedPremiumArgs :
                      unchanged(add_premium_command(usersFile, now, caller, args))
                /\ \A args \in RemovePremiumArgs :
                      unchanged(remove_premium_command(usersFile, caller, args))
                /\ \A text \in Texts :
                      LET r == admin_message_handler(usersFile, now, caller, session, text)
                      IN  /\ unchanged(r)
                          /\ r.out.trace = <<>>
                          /\ r.session = session
                /\ \A data \in DurationButtons :
                      LET r == premium_duration_callback(usersFile, now, caller, session, data)
                      IN  /\ unchanged(r)
                          /\ r.out.trace = <<>>
                          /\ r.out.reply = "user_id_not_found"
                /\ unchanged(premium_enter_user_callback(usersFile, caller, session))
                /\ unchanged(premium_quick_options_callback(usersFile, caller, session))

\* A viewer has pressed "Quick Premium Options" on a panel an admin opened,
\* while the admin's own session holds a target id and premium has been
\* granted once: the viewer's user id message is ignored and the viewer's
\* duration button finds no user id.
C35_Witness ==
    \E caller \in Viewers, admin \in ADMIN_USER_IDS :
        /\ grants = 1
        /\ user_data[caller].admin_state = WAITING_FOR_USER_ID
        /\ user_data[caller].premium_quick_options
        /\ user_data[admin].premium_user_id = <<caller>>
        /\ admin_message_handler(usersFile, now, caller, user_data[caller],
                                 Num(caller)).out.reply = "none"
        /\ premium_duration_callback(usersFile, now, caller, user_data[caller],
                                     Num(7)).out.reply = "user_id_not_found"
        /\ premium_duration_callback(usersFile, now, admin, user_data[admin],
                                     Num(7)).out.trace = <<<<caller, 7>>>>

\* C36 (as claimed): when an admin presses "Enter User ID", the next message
\* that is a number is taken as the user id, moves the session to
\* WAITING_FOR_MONTHS and is answered by the question for the months,
\* whatever the admin pressed before.
C36_EnterUserAsksMonths ==
    \A caller \in ADMIN_USER_IDS, text \in Texts :
        text.int =>
            LET pressed == premium_enter_user_callback(usersFile, caller,
                                                       user_data[caller]).session
                r == admin_message_handler(usersFile, now, caller, pressed, text)
            IN  /\ r.session.admin_state = WAITING_FOR_MONTHS
                /\ r.session.premium_user_id = <<text.n>>
                /\ r.out.reply = "ask_months"

\* C37 (as claimed): a grant made through the panel -- months typed, days
\* typed, or a duration button -- calls set_user_premium_days once and
\* leaves user_data without admin_state and without premium_user_id, so
\* that the same duration button pressed again grants nothing.
C37_GrantClearsSession ==
    \A caller \in ADMIN_USER_IDS :
        LET cleared(r) ==
                r.out.trace # <<>>
                => /\ Len(r.out.trace) = 1
                   /\ r.session.admin_state = NoState
                   /\ r.session.premium_user_id = None
        IN  /\ \A text \in Texts :
                  cleared(admin_message_handler(usersFile, now, caller,
                                                user_data[caller], text))
            /\ \A data \in DurationButtons :
                  LET r == premium_duration_callback(usersFile, now, caller,
                                                     user_data[caller], data)
                  IN  /\ cleared(r)
                      /\ r.out.trace # <<>>
                         => premium_duration_callback(r.file, now, caller, r.session,
                                                      data).out.trace = <<>>

\* update.effective_user.username as add_user can receive it: the name, a
\* changed name, or None for an account without one.
Usernames(user) == {UsernameOf(user), <<"renamed">>, None}

\* C38: add_user for an id with a record writes the username and nothing
\* else: token_expiry, is_active, joined_channels, is_premium and
\* premium_expiry of that record and every other record stay, so the three
\* checks answer after a /start as before it.  For a new id it appends the
\* record {user_id, username, token_expiry: null, is_active: false}, for
\* which check_user_token, check_user_premium and check_user_joined_channels
\* are all false.
C38_AddUserWritesUsername ==
    \A user \in AnyUserIds : \A username \in Usernames(user) :
        LET f == add_user(usersFile, user, username)
            before == UsersOf(usersFile)
            after == UsersOf(f)
        IN  /\ \A i \in 1..Len(before) :
                  after[i] = IF before[i].user_id = user
                             THEN [before[i] EXCEPT !.username = username]
                             ELSE before[i]
            /\ \A other \in AnyUserIds :
                  HasRecord(usersFile, other)
                  => /\ check_user_token(f, now, other) = check_user_token(usersFile, now, other)
                     /\ check_user_premium(f, now, other)
                           = check_user_premium(usersFile, now, other)
                     /\ check_user_joined_channels(f, other)
                           = check_user_joined_channels(usersFile, other)
                     /\ UserRecord(f, other).is_active = UserRecord(usersFile, other).is_active
            /\ IF HasRecord(usersFile, user)
               THEN Len(after) = Len(before)
               ELSE /\ Len(after) = Len(before) + 1
                    /\ after[Len(after)] = NewUser(user, username, None, FALSE)
                    /\ UserRecord(f, user).token_expiry = None
                    /\ UserRecord(f, user).keys = {}
                    /\ ~check_user_token(f, now, user)
                    /\ ~check_user_premium(f, now, user)
                    /\ ~check_user_joined_channels(f, user)

\* A joined viewer with unexpired premium and a running token, who has sent
\* /start before, sends it again under a changed name: the name is all that
\* changes.
C38_Witness ==
    \E user \in Viewers :
        LET f == add_user(usersFile, user, <<"renamed">>)
        IN  /\ PremiumInForce(usersFile, now, user)
            /\ check_user_joined_channels(usersFile, user)
            /\ check_user_token(usersFile, now, user)
            /\ UserRecord(usersFile, user).username = UsernameOf(user)
            /\ UserRecord(f, user).username = <<"renamed">>
            /\ check_user_premium(f, now, user)
            /\ check_user_joined_channels(f, user)
            /\ StartNow(user, NoParam).file = usersFile

----------------------------------------------------------------------------
(* Mutating calls on a document that is missing or damaged.                *)

\* A store call on `file`, run whole: the exception its read lets through,
\* if any, the file it leaves and what it returns.
CallOutcome(call, file, t) ==
    IF file.exists /\ ~file.decodes
    THEN [raised |-> TRUE, file |-> file, result |-> <<>>]
    ELSE [raised |-> FALSE,
          file |-> IF Apply(call, file, t).wrote THEN Apply(call, file, t).file ELSE file,
          result |-> Apply(call, file, t).result]

\* The users calls that write a record whether or not one is there.
UpsertCalls == {call \in StoreCalls : call.name \in CreatingCalls}

\* C39 (as claimed): add_video on a videos document that is missing or does
\* not parse returns id 1 and rewrites the document with only the new video
\* and next_id = 2; add_user, set_user_token, set_user_joined_channels or a
\* premium grant on a users document that is missing or does not parse
\* rewrites it with only the record of the user it is called for.
C39_DamagedDocumentIsRewritten ==
    /\ Unreadable(videosFile)
        => LET o == CallOutcome([name |-> "add_video", arg |-> 0], videosFile, now)
           IN  /\ ~o.raised
               /\ o.result = <<1>>
               /\ o.file.exists /\ o.file.decodes /\ o.file.valid
               /\ Len(o.file.doc.videos) = 1
               /\ o.file.doc.videos[1].id = 1
               /\ o.file.doc.next_id = 2
    /\ Unreadable(usersFile)
        => \A call \in UpsertCalls :
            LET o == CallOutcome(call, usersFile, now)
            IN  /\ ~o.raised
                /\ o.file.exists /\ o.file.decodes /\ o.file.valid
                /\ Len(o.file.doc.users) = 1
                /\ o.file.doc.users[1].user_id = call.arg

\* The same for the documents that are missing or hold text that is not
\* JSON, where the read does give the default.
C39_MissingOrMalformedIsRewritten ==
    /\ videosFile \in {MissingFile, MalformedFile}
        => LET o == CallOutcome([name |-> "add_video", arg |-> 0], videosFile, now)
           IN  /\ ~o.raised
               /\ o.result = <<1>>
               /\ Len(o.file.doc.videos) = 1
               /\ o.file.doc.videos[1].id = 1
               /\ o.file.doc.next_id = 2
    /\ usersFile \in {MissingFile, MalformedFile}
        => \A call \in UpsertCalls :
            LET o == CallOutcome(call, usersFile, now)
            IN  /\ ~o.raised
                /\ Len(o.file.doc.users) = 1
                /\ o.file.doc.users[1].user_id = call.arg

\* A videos document that held a video is left cut off inside a character.
C39_UndecodableVideos ==
    /\ videosFile = UndecodableFile
    /\ CallOutcome([name |-> "add_video", arg |-> 0], videosFile, now).raised

====
